---- MODULE Spec2Model ----
(***************************************************************************)
(* Model of the roundabout collection-cycle engine:                        *)
(*   - bgpp.fetch_stop                 (retrying fetch client)             *)
(*   - clickhouse.ClickHouseBatchWriter (buffered batch writer)            *)
(*   - rate_limiter.TokenBucketRateLimiter (admission gate)                *)
(*   - vehicle_tracker.VehicleTracker  (cross-cycle tracker)               *)
(*   - orchestrator.collect_once       (one collection cycle)              *)
(* Each component has its own variables, its own initial condition and     *)
(* its own next-state relation; a component specification runs one         *)
(* component while the others stay in their initial state.                 *)
(*                                                                         *)
(* Python's None is the empty tuple and a present value x is <<x>>, so an  *)
(* optional value is always a tuple and "is None" is a comparison of       *)
(* tuples.                                                                 *)
(***************************************************************************)
EXTENDS Integers, Sequences, FiniteSets, TLC

VARIABLES
    \* ---- bgpp.fetch_stop
    f_retries,      \* the retries argument
    f_pc,           \* "attempt" | "sleeping" | "returned" | "raised"
    f_attempt,      \* loop variable `attempt`
    f_last_error,   \* local last_error
    f_status,       \* local status
    f_sleeps,       \* time.sleep calls made, in units of RETRY_BASE_DELAY_S
    f_log,          \* history: the outcome of every attempt made
    f_result,       \* the FetchResult returned (None before return)
    \* ---- clickhouse.ClickHouseBatchWriter
    w_batch_size,   \* self._batch_size
    w_buffer,       \* self._buffer
    w_calls,        \* history: every insert_json_each_row call, with its outcome
    w_written,      \* history: number of write() calls made
    w_last,         \* history: the last method call and how it ended
    \* ---- rate_limiter.TokenBucketRateLimiter
    rl_rate,        \* self.tokens_per_second, in 1/TokenScale tokens per tick
    rl_capacity,    \* self.bucket_capacity (whole tokens)
    rl_tokens,      \* self.tokens, in 1/TokenScale tokens
    rl_elapsed,     \* time.monotonic() - self.last_refill, in ticks (saturating)
    rl_lock,        \* holder of self.lock (None when free)
    rl_pc,          \* per worker: position inside acquire / get_available_tokens
    rl_want,        \* per worker: the tokens argument of the acquire in progress
    rl_event,       \* history: the call or poll that ended last (worker, kind, tokens
                    \* argument, amount debited, whether its refill was cut at capacity)
    rl_budget,      \* history: bucket capacity plus the tokens accrued by the time
                    \* passed, minus the tokens debited by the acquire calls that
                    \* returned, in 1/TokenScale tokens (counted up to BudgetCap)
    \* ---- vehicle_tracker.VehicleTracker
    vt_ttl,         \* self.ttl_cycles
    vt_states,      \* self.states: key -> VehicleState or None
    vt_counter,     \* self.cycle_counter
    vt_buckets,     \* self.cycle_to_vehicles: cycle ordinal -> set of keys
    vt_since,       \* history: per key, cleanups since its last update (-1: never updated)
    vt_stored,      \* history: per key, the state its last update stored (None: never updated)
    vt_ret,         \* history: the last call, its return value and what it saw
    \* ---- orchestrator.collect_once
    c_jsonl,        \* config.jsonl_enabled
    c_clickhouse,   \* config.clickhouse_enabled
    c_outcome,      \* per stop: what its fetch task ends with
    c_task,         \* per stop: "queued" | "running" | "done"
    c_order,        \* the stops whose future the aggregation loop has consumed, in order
    c_pc,           \* "aggregating" | "shutdown" | "closing" | "summarizing" | "returned" | "raised"
    c_exc,          \* exception in flight out of the try block (None if none)
    c_seen,         \* seen_vehicle_keys
    c_counts,       \* predictions_count, unique_vehicles, errors, responses
    c_jsonl_out,    \* records written to the JSONL writers, per table
    c_ch_out,       \* records written to the ClickHouse batch writers, per table
    c_closed,       \* writers on which close() has been called
    c_summary,      \* the CycleSummary returned (None before return)
    c_admitted,     \* history: the stops whose task has returned from a rate
                    \* limiter's acquire()
    \* ---- orchestrator.collect_forever
    cf_interval,    \* config.interval_s, in ticks
    cf_pc,          \* "off" (collect_once called on its own) | "start" | "in_cycle" |
                    \* "sleeping" | "returned" | "raised"
    cf_cycle,       \* history: number of collect_once calls made
    cf_last,        \* history: after a cycle, the elapsed time measured, what the ETL
                    \* step did and the time.sleep() call made (None: none made)
    cf_prev,        \* history: how the previous cycle stood when this one was started
    cf_starts,      \* history: the wall-clock time each collect_once call started at
    lg_n,           \* collector.collect_once: number of futures it has consumed
    lg_pc,          \* "aggregating" | "summarizing" | "returned" | "raised"
    lg_exc,         \* the exception in flight, or None
    lg_seen,        \* seen_vehicle_keys
    lg_counts,      \* predictions_count, unique_vehicles, errors, responses
    lg_jsonl_out,   \* records written to the JSONL writers, per table
    lg_ch_out,      \* records written to the ClickHouse writers, per table
    lg_closed,      \* writers closed
    lg_summary,     \* the CycleSummary returned, or None
    \* ---- transformers.build_vehicle_key
    bk_args,        \* the arguments of two calls
    bk_keys,        \* the keys the two calls returned (None before the calls)
    \* ---- cli.parse_args
    cli_args,       \* the values argparse hands over (args.*)
    cli_config      \* the CollectorConfig returned (None before the return)

fetchVars   == <<f_retries, f_pc, f_attempt, f_last_error, f_status, f_sleeps, f_log, f_result>>
writerVars  == <<w_batch_size, w_buffer, w_calls, w_written, w_last>>
limiterVars == <<rl_rate, rl_capacity, rl_tokens, rl_elapsed, rl_lock, rl_pc, rl_want,
                 rl_event, rl_budget>>
trackerVars == <<vt_ttl, vt_states, vt_counter, vt_buckets, vt_since, vt_stored, vt_ret>>
cycleVars   == <<c_jsonl, c_clickhouse, c_outcome, c_task, c_order, c_pc, c_exc,
                 c_seen, c_counts, c_jsonl_out, c_ch_out, c_closed, c_summary,
                 c_admitted>>
foreverVars == <<cf_interval, cf_pc, cf_cycle, cf_last, cf_prev, cf_starts>>
keyVars     == <<bk_args, bk_keys>>
cliVars     == <<cli_args, cli_config>>
legacyVars  == <<lg_n, lg_pc, lg_exc, lg_seen, lg_counts, lg_jsonl_out, lg_ch_out, lg_closed,
                 lg_summary>>
vars        == <<fetchVars, writerVars, limiterVars, trackerVars, cycleVars, foreverVars,
                 keyVars, cliVars, legacyVars>>

None == <<>>
Some(x) == <<x>>

Min(a, b) == IF a <= b THEN a ELSE b
Max(a, b) == IF a >= b THEN a ELSE b

(***************************************************************************)
(* bgpp.fetch_stop                                                         *)
(***************************************************************************)

\* Largest retries argument explored.
MaxRetries == 2

\* HTTP status codes an HTTPError can carry, and statuses of a response
\* that urlopen returns without raising.
HttpErrorCodes == {404, 500}
OkStatuses == {200}

\* Response bodies: a JSON object, the JSON literal null, a JSON array,
\* text that is not JSON, and bytes that are not UTF-8.
Bodies == {"json_object", "json_null", "json_array", "not_json", "bad_utf8"}

\* body.decode("utf-8") followed by json.loads: the parsed value, or the
\* exception class raised.  json.loads("null") is Python's None.
JsonLoads(body) ==
    CASE body = "json_object" -> [exc |-> None, value |-> Some("dict")]
      [] body = "json_array"  -> [exc |-> None, value |-> Some("list")]
      [] body = "json_null"   -> [exc |-> None, value |-> None]
      [] body = "not_json"    -> [exc |-> Some("ValueError"), value |-> None]
      [] body = "bad_utf8"    -> [exc |-> Some("ValueError"), value |-> None]

\* What one pass through the try block can meet.
\*   urlopen_raises: Request()/urlopen() raises exc before a response exists
\*   read_raises:    urlopen returned a response with `status`, response.read() raises exc
\*   body:           the response with `status` was read completely
\* "Other" is any exception class that is not an OSError or a ValueError
\* (http.client.HTTPException and its subclasses, for instance).
AttemptOutcomes ==
    [kind : {"urlopen_raises"}, exc : {"URLError", "OSError", "ValueError", "Other"},
     status : {0}, body : {"-"}]
    \cup [kind : {"urlopen_raises"}, exc : {"HTTPError"}, status : HttpErrorCodes, body : {"-"}]
    \cup [kind : {"read_raises"}, exc : {"OSError", "Other"}, status : OkStatuses, body : {"-"}]
    \cup [kind : {"body"}, exc : {"-"}, status : OkStatuses, body : Bodies]

\* The exception the try block ends with (None: it reaches the return).
RaisedBy(o) ==
    CASE o.kind = "urlopen_raises" -> Some(o.exc)
      [] o.kind = "read_raises"    -> Some(o.exc)
      [] o.kind = "body"           -> JsonLoads(o.body).exc

\* The except clauses, in order: HTTPError, URLError, (OSError, ValueError).
\* The result is the classified error <<prefix, detail>>, or None when no
\* clause matches and the exception leaves fetch_stop.
Classify(o, exc) ==
    CASE exc = "HTTPError"  -> Some(<<"http_error", o.status>>)
      [] exc = "URLError"   -> Some(<<"url_error", 0>>)
      [] exc = "OSError"    -> Some(<<"error", 0>>)
      [] exc = "ValueError" -> Some(<<"error", 0>>)
      [] OTHER              -> None

\* The local `status` after the try block ran with outcome o.
StatusAfter(o, status) ==
    CASE o.kind = "urlopen_raises" /\ o.exc = "HTTPError" -> Some(o.status)
      [] o.kind = "urlopen_raises" /\ o.exc # "HTTPError" -> status
      [] OTHER -> Some(o.status)

\* last_error or "unknown_error"
OrUnknown(last_error) ==
    IF last_error = None THEN Some(<<"unknown_error", 0>>) ELSE last_error

\* `if attempt <= retries: time.sleep(RETRY_BASE_DELAY_S * attempt)`: the
\* delay slept after a failed attempt, in units of RETRY_BASE_DELAY_S
\* (0.25 s), or None when the statement does not sleep.
SleepAfterEveryAttempt(attempt, retries) == Some(attempt)
SleepAfter(attempt, retries) ==
    IF attempt <= retries THEN Some(attempt) ELSE None

FetchResult(payload, error, status, attempts) ==
    [payload |-> payload, error |-> error, status |-> status, attempts |-> attempts]

FetchInit ==
    /\ f_retries \in 0..MaxRetries
    /\ f_pc = "attempt"
    /\ f_attempt = 1
    /\ f_last_error = None
    /\ f_status = None
    /\ f_sleeps = <<>>
    /\ f_log = <<>>
    /\ f_result = None

FetchIdle ==
    /\ f_retries = 0
    /\ f_pc = "attempt"
    /\ f_attempt = 1
    /\ f_last_error = None
    /\ f_status = None
    /\ f_sleeps = <<>>
    /\ f_log = <<>>
    /\ f_result = None

\* One iteration of `for attempt in range(1, retries + 2)`, up to and
\* including the decision to sleep, and the final return when the loop ends.
FetchAttempt(o) ==
    /\ f_pc = "attempt"
    /\ f_attempt <= f_retries + 1
    /\ f_log' = Append(f_log, o)
    /\ LET exc == RaisedBy(o)
           status == StatusAfter(o, f_status)
       IN IF exc = None
          THEN \* return FetchResult(payload=payload, error=None, ...)
               /\ f_result' = Some(FetchResult(JsonLoads(o.body).value, None, status, f_attempt))
               /\ f_status' = status
               /\ f_pc' = "returned"
               /\ UNCHANGED <<f_attempt, f_last_error, f_sleeps>>
          ELSE LET err == Classify(o, exc[1]) IN
               IF err = None
               THEN \* no except clause matches: the exception propagates
                    /\ f_pc' = "raised"
                    /\ f_status' = status
                    /\ UNCHANGED <<f_attempt, f_last_error, f_sleeps, f_result>>
               ELSE /\ f_last_error' = err
                    /\ f_status' = status
                    /\ IF SleepAfter(f_attempt, f_retries) # None
                       THEN \* time.sleep(RETRY_BASE_DELAY_S * attempt)
                            /\ f_sleeps' = Append(f_sleeps, SleepAfter(f_attempt, f_retries)[1])
                            /\ f_pc' = "sleeping"
                            /\ UNCHANGED <<f_attempt, f_result>>
                       ELSE \* loop exhausted: return the failure result
                            /\ f_result' = Some(FetchResult(None, OrUnknown(err),
                                                             status, f_retries + 1))
                            /\ f_pc' = "returned"
                            /\ UNCHANGED <<f_attempt, f_sleeps>>
    /\ UNCHANGED <<f_retries>>
    /\ UNCHANGED <<writerVars, limiterVars, trackerVars, cycleVars, foreverVars, keyVars, cliVars, legacyVars>>

\* The sleep ends and the loop advances to the next attempt.
FetchWake ==
    /\ f_pc = "sleeping"
    /\ f_attempt' = f_attempt + 1
    /\ f_pc' = "attempt"
    /\ UNCHANGED <<f_retries, f_last_error, f_status, f_sleeps, f_log, f_result>>
    /\ UNCHANGED <<writerVars, limiterVars, trackerVars, cycleVars, foreverVars, keyVars, cliVars, legacyVars>>

FetchNext ==
    \/ \E o \in AttemptOutcomes : FetchAttempt(o)
    \/ FetchWake

(***************************************************************************)
(* clickhouse.ClickHouseBatchWriter                                        *)
(***************************************************************************)

\* Largest batch_size argument explored, and the number of write() calls
\* explored on one writer.
MaxBatchSize == 2
MaxWrites == 4

\* What the HTTP exchange inside insert_json_each_row can end with: the
\* insert succeeds, urlopen raises HTTPError or URLError, or an exception
\* that is neither is raised (socket.timeout from response.read(), a
\* TypeError from json.dumps of a record).
SinkOutcomes == {"ok", "HTTPError", "URLError", "OSError", "TypeError"}

\* ClickHouseClient.insert_json_each_row: the exception it raises for a
\* non-empty record list (None: it returns).
InsertJsonEachRow(records, o) ==
    IF records = <<>> THEN None
    ELSE CASE o = "ok"        -> None
           [] o = "HTTPError" -> Some("ClickHouseError")
           [] o = "URLError"  -> Some("ClickHouseError")
           [] OTHER           -> Some(o)

\* flush() clearing the buffer only after a successful insert, so that a
\* failed batch is passed to the sink again by the next flush.
FlushEffectKeepOnFailure(buf, o) ==
    IF buf = <<>>
    THEN [buffer |-> buf, call |-> None, raised |-> None]
    ELSE LET exc == InsertJsonEachRow(buf, o) IN
         [buffer |-> IF exc = None THEN <<>> ELSE buf,
          call   |-> Some([records |-> buf, outcome |-> o]),
          raised |-> IF exc = None \/ exc = Some("ClickHouseError") THEN None ELSE exc]

\* ClickHouseBatchWriter.flush on buffer `buf`: the buffer afterwards, the
\* insert call made (if any) and the exception that leaves flush (if any).
FlushEffect(buf, o) ==
    IF buf = <<>>
    THEN [buffer |-> buf, call |-> None, raised |-> None]
    ELSE LET exc == InsertJsonEachRow(buf, o) IN
         [buffer |-> <<>>,
          call   |-> Some([records |-> buf, outcome |-> o]),
          raised |-> IF exc = None \/ exc = Some("ClickHouseError") THEN None ELSE exc]

WriterInit ==
    /\ w_batch_size \in {Max(1, b) : b \in 0..MaxBatchSize}
    /\ w_buffer = <<>>
    /\ w_calls = <<>>
    /\ w_written = 0
    /\ w_last = [op |-> "init", raised |-> None]

WriterIdle ==
    /\ w_batch_size = 1
    /\ w_buffer = <<>>
    /\ w_calls = <<>>
    /\ w_written = 0
    /\ w_last = [op |-> "init", raised |-> None]

WriterApply(op, eff) ==
    /\ w_buffer' = eff.buffer
    /\ w_calls' = IF eff.call = None THEN w_calls ELSE Append(w_calls, eff.call[1])
    /\ w_last' = [op |-> op, raised |-> eff.raised]

\* The threshold test taken one record late.
BatchFullLate(buf, batch_size) == Len(buf) > batch_size

\* `if len(self._buffer) >= self._batch_size`
BatchFull(buf, batch_size) == Len(buf) >= batch_size

\* write(record): records are numbered in the order they are written.
WriterWrite(o) ==
    /\ w_written < MaxWrites
    /\ w_written' = w_written + 1
    /\ LET buf == Append(w_buffer, w_written + 1) IN
       IF BatchFull(buf, w_batch_size)
       THEN WriterApply("write", FlushEffect(buf, o))
       ELSE WriterApply("write", [buffer |-> buf, call |-> None, raised |-> None])
    /\ UNCHANGED <<w_batch_size>>
    /\ UNCHANGED <<fetchVars, limiterVars, trackerVars, cycleVars, foreverVars, keyVars, cliVars, legacyVars>>

WriterFlush(o) ==
    /\ WriterApply("flush", FlushEffect(w_buffer, o))
    /\ UNCHANGED <<w_batch_size, w_written>>
    /\ UNCHANGED <<fetchVars, limiterVars, trackerVars, cycleVars, foreverVars, keyVars, cliVars, legacyVars>>

WriterClose(o) ==
    /\ WriterApply("close", FlushEffect(w_buffer, o))
    /\ UNCHANGED <<w_batch_size, w_written>>
    /\ UNCHANGED <<fetchVars, limiterVars, trackerVars, cycleVars, foreverVars, keyVars, cliVars, legacyVars>>

WriterNext ==
    \/ \E o \in SinkOutcomes : WriterWrite(o)
    \/ \E o \in SinkOutcomes : WriterFlush(o)
    \/ \E o \in SinkOutcomes : WriterClose(o)

(***************************************************************************)
(* rate_limiter.TokenBucketRateLimiter                                     *)
(*                                                                         *)
(* Time is counted in ticks and token amounts in 1/TokenScale of a token,  *)
(* so that fractional rates and fractional bucket contents are integers.   *)
(* The clock is kept as the time since last_refill, which is all _refill   *)
(* reads; it saturates once a refill would fill the bucket anyway.         *)
(***************************************************************************)

TokenScale == 4
NumWorkers == 2
MaxAcquire == 2

Workers == 1..NumWorkers

\* tokens_per_second arguments, scaled: 1/TokenScale of a token and 1 token
\* per tick, and the rejected values 0 and -1.
RateArgs == {-1, 0, 1, TokenScale}

\* bucket_capacity arguments: None (the default), 0, and an explicit capacity.
CapacityArgs == {None, Some(0), Some(1)}

\* __init__: `bucket_capacity or int(tokens_per_second * 2)`.
BucketCapacity(rate, capacity_arg) ==
    IF capacity_arg # None /\ capacity_arg[1] # 0
    THEN capacity_arg[1]
    ELSE (2 * rate) \div TokenScale

\* __init__ raises ValueError for tokens_per_second <= 0.
LimiterCtorRaises(rate) == rate <= 0

\* Elapsed time beyond which a refill fills the bucket whatever it holds.
ElapsedCap == Max(1, (rl_capacity * TokenScale + rl_rate - 1) \div rl_rate)

\* _refill without the min(): the bucket grows without limit.
RefillUncapped(tokens, elapsed) ==
    tokens + elapsed * rl_rate

\* _refill: tokens = min(bucket_capacity, tokens + elapsed * tokens_per_second).
Refill(tokens, elapsed) ==
    Min(rl_capacity * TokenScale, tokens + elapsed * rl_rate)

\* Whether _refill's min() picked bucket_capacity over a larger sum.
Clipped(tokens, elapsed) ==
    tokens + elapsed * rl_rate > rl_capacity * TokenScale

\* Beyond this much unspent budget the bucket is full whatever happens next.
BudgetCap == rl_capacity * TokenScale + ElapsedCap * rl_rate

Event(w, kind, n, debited, clipped) ==
    [worker |-> w, kind |-> kind, n |-> n, debited |-> debited, clipped |-> clipped]

LimiterInitWith(rate, capacity_arg) ==
    /\ rl_rate = rate
    /\ rl_capacity = BucketCapacity(rate, capacity_arg)
    /\ rl_tokens = BucketCapacity(rate, capacity_arg) * TokenScale
    /\ rl_elapsed = 0
    /\ rl_lock = None
    /\ rl_pc = [w \in Workers |-> "idle"]
    /\ rl_want = [w \in Workers |-> 0]
    /\ rl_event = Event(0, "none", 0, 0, FALSE)
    /\ rl_budget = BucketCapacity(rate, capacity_arg) * TokenScale

\* The limiters that construction yields: a non-positive rate raises and
\* yields none.
LimiterInit ==
    \E rate \in RateArgs, capacity_arg \in CapacityArgs :
        /\ ~LimiterCtorRaises(rate)
        /\ LimiterInitWith(rate, capacity_arg)

LimiterIdle == LimiterInitWith(TokenScale, None)

\* Time passes.
Tick ==
    /\ rl_elapsed < ElapsedCap
    /\ rl_elapsed' = rl_elapsed + 1
    /\ rl_budget' = Min(BudgetCap, rl_budget + rl_rate)
    /\ UNCHANGED <<rl_rate, rl_capacity, rl_tokens, rl_lock, rl_pc, rl_want, rl_event>>
    /\ UNCHANGED <<fetchVars, writerVars, trackerVars, cycleVars, foreverVars, keyVars, cliVars, legacyVars>>

\* acquire(n) up to `with self.lock`: a negative n raises ValueError, n = 0
\* returns True at once.
AcquireCall(w, n) ==
    /\ rl_pc[w] = "idle"
    /\ IF n < 0
       THEN /\ rl_event' = Event(w, "acquire_raised", n, 0, FALSE)
            /\ UNCHANGED <<rl_pc, rl_want>>
       ELSE IF n = 0
       THEN /\ rl_event' = Event(w, "acquire_true", 0, 0, FALSE)
            /\ UNCHANGED <<rl_pc, rl_want>>
       ELSE /\ rl_pc' = [rl_pc EXCEPT ![w] = "acq_lock"]
            /\ rl_want' = [rl_want EXCEPT ![w] = n]
            /\ UNCHANGED rl_event
    /\ UNCHANGED <<rl_rate, rl_capacity, rl_tokens, rl_elapsed, rl_lock, rl_budget>>
    /\ UNCHANGED <<fetchVars, writerVars, trackerVars, cycleVars, foreverVars, keyVars, cliVars, legacyVars>>

\* `with self.lock:` in acquire is entered.
AcquireLock(w) ==
    /\ rl_pc[w] = "acq_lock"
    /\ rl_lock = None
    /\ rl_lock' = Some(w)
    /\ rl_pc' = [rl_pc EXCEPT ![w] = "acq_loop"]
    /\ UNCHANGED <<rl_rate, rl_capacity, rl_tokens, rl_elapsed, rl_want, rl_event, rl_budget>>
    /\ UNCHANGED <<fetchVars, writerVars, trackerVars, cycleVars, foreverVars, keyVars, cliVars, legacyVars>>

\* A debit that is lost: the bucket keeps the tokens it handed out.
DebitLost(tokens, n) == tokens

\* The debit `self.tokens -= tokens`.
Debit(tokens, n) == tokens - n * TokenScale

\* The lock across the sleep between polls: time.sleep(0.01) is inside the
\* `with self.lock` block, so the sleeping worker keeps the lock.
LockWhileSleeping(w) == Some(w)

\* One pass of the `while True` loop: refill, then debit and return True
\* (leaving the with block releases the lock), or go to sleep.
AcquirePoll(w) ==
    /\ rl_pc[w] = "acq_loop"
    /\ rl_lock = Some(w)
    /\ LET filled == Refill(rl_tokens, rl_elapsed)
           clipped == Clipped(rl_tokens, rl_elapsed)
       IN /\ rl_elapsed' = 0
          /\ IF filled >= rl_want[w] * TokenScale
             THEN /\ rl_tokens' = Debit(filled, rl_want[w])
                  /\ rl_lock' = None
                  /\ rl_pc' = [rl_pc EXCEPT ![w] = "idle"]
                  /\ rl_want' = [rl_want EXCEPT ![w] = 0]
                  /\ rl_event' = Event(w, "acquire_true", rl_want[w], filled - rl_tokens', clipped)
                  /\ rl_budget' = rl_budget - rl_want[w] * TokenScale
             ELSE /\ rl_tokens' = filled
                  /\ rl_lock' = LockWhileSleeping(w)
                  /\ rl_pc' = [rl_pc EXCEPT ![w] = "acq_sleep"]
                  /\ rl_event' = Event(w, "poll", rl_want[w], 0, clipped)
                  /\ UNCHANGED <<rl_want, rl_budget>>
    /\ UNCHANGED <<rl_rate, rl_capacity>>
    /\ UNCHANGED <<fetchVars, writerVars, trackerVars, cycleVars, foreverVars, keyVars, cliVars, legacyVars>>

\* time.sleep(0.01) returns; the loop goes round again.
AcquireWake(w) ==
    /\ rl_pc[w] = "acq_sleep"
    /\ rl_pc' = [rl_pc EXCEPT ![w] = "acq_loop"]
    /\ UNCHANGED <<rl_rate, rl_capacity, rl_tokens, rl_elapsed, rl_lock, rl_want, rl_event, rl_budget>>
    /\ UNCHANGED <<fetchVars, writerVars, trackerVars, cycleVars, foreverVars, keyVars, cliVars, legacyVars>>

\* get_available_tokens() is called and reaches `with self.lock`.
GetCall(w) ==
    /\ rl_pc[w] = "idle"
    /\ rl_pc' = [rl_pc EXCEPT ![w] = "get_lock"]
    /\ UNCHANGED <<rl_rate, rl_capacity, rl_tokens, rl_elapsed, rl_lock, rl_want, rl_event, rl_budget>>
    /\ UNCHANGED <<fetchVars, writerVars, trackerVars, cycleVars, foreverVars, keyVars, cliVars, legacyVars>>

\* get_available_tokens() gets the lock, refills, returns self.tokens and
\* releases the lock.
GetReturn(w) ==
    /\ rl_pc[w] = "get_lock"
    /\ rl_lock = None
    /\ rl_tokens' = Refill(rl_tokens, rl_elapsed)
    /\ rl_elapsed' = 0
    /\ rl_event' = Event(w, "get", 0, 0, Clipped(rl_tokens, rl_elapsed))
    /\ rl_pc' = [rl_pc EXCEPT ![w] = "idle"]
    /\ UNCHANGED <<rl_rate, rl_capacity, rl_lock, rl_want, rl_budget>>
    /\ UNCHANGED <<fetchVars, writerVars, trackerVars, cycleVars, foreverVars, keyVars, cliVars, legacyVars>>

LimiterNext ==
    \/ Tick
    \/ \E w \in Workers, n \in -1..MaxAcquire : AcquireCall(w, n)
    \/ \E w \in Workers : AcquireLock(w)
    \/ \E w \in Workers : AcquirePoll(w)
    \/ \E w \in Workers : AcquireWake(w)
    \/ \E w \in Workers : GetCall(w)
    \/ \E w \in Workers : GetReturn(w)

(***************************************************************************)
(* vehicle_tracker.VehicleTracker                                          *)
(***************************************************************************)

\* Largest ttl_cycles explored, number of cleanup() calls explored, and the
\* largest cycles_seen a state is driven to.
MaxTtl == 2
MaxCleanups == 3
MaxSeen == 2

VehicleKeys == {"garage:P1", "garage:P2"}
CycleIds == {"c1", "c2"}

\* The observation arguments of update(): observed_at, lat, lon, stop_code,
\* line_number.
Observations ==
    { [observed_at |-> 1, lat |-> Some(10), lon |-> Some(20), stop_code |-> "s1",
       line_number |-> Some("7")],
      [observed_at |-> 2, lat |-> None, lon |-> Some(20), stop_code |-> "s2",
       line_number |-> None] }

\* What vt_ret records of a call: the method, its key, the value returned,
\* for update the number of cleanups since the key's previous update (-1 on a
\* first update) and the state that previous update stored, for cleanup the
\* keys of the buckets it dropped (vehicles_to_remove), and the other
\* arguments of update and detect_movement.
Ret(op, key, value, gap, before, dropped, args) ==
    [op |-> op, key |-> key, value |-> value, gap |-> gap, before |-> before,
     dropped |-> dropped, args |-> args]

\* __init__ raises ValueError for ttl_cycles < 1.
TrackerCtorRaises(ttl) == ttl < 1

TrackerInitWith(ttl) ==
    /\ vt_ttl = ttl
    /\ vt_states = [k \in VehicleKeys |-> None]
    /\ vt_counter = 0
    /\ vt_buckets = <<>>
    /\ vt_since = [k \in VehicleKeys |-> -1]
    /\ vt_stored = [k \in VehicleKeys |-> None]
    /\ vt_ret = Ret("init", "", None, -1, None, {}, None)

TrackerInit ==
    \E ttl \in 0..MaxTtl :
        /\ ~TrackerCtorRaises(ttl)
        /\ TrackerInitWith(ttl)

TrackerIdle == TrackerInitWith(1)

\* states.get answering with the state last stored for the key, evicted or not.
GetVehicleStateStored(key) == vt_stored[key]

\* get_vehicle_state(key): self.states.get(vehicle_key)
GetVehicleState(key) == vt_states[key]

\* update() overwriting first_seen_cycle_id like every other field.
NewVehicleStateFirstSeenReset(previous, key, cycle_id, obs) ==
    [vehicle_key         |-> key,
     last_cycle_id       |-> cycle_id,
     last_observed_at    |-> obs.observed_at,
     last_lat            |-> obs.lat,
     last_lon            |-> obs.lon,
     last_stop_code      |-> obs.stop_code,
     last_line_number    |-> obs.line_number,
     first_seen_cycle_id |-> cycle_id,
     cycles_seen         |-> IF previous # None THEN previous[1].cycles_seen + 1 ELSE 1]

\* update() storing cycles_seen = 1 whatever the previous state.
NewVehicleStateNoCount(previous, key, cycle_id, obs) ==
    [vehicle_key         |-> key,
     last_cycle_id       |-> cycle_id,
     last_observed_at    |-> obs.observed_at,
     last_lat            |-> obs.lat,
     last_lon            |-> obs.lon,
     last_stop_code      |-> obs.stop_code,
     last_line_number    |-> obs.line_number,
     first_seen_cycle_id |-> IF previous # None THEN previous[1].first_seen_cycle_id
                             ELSE cycle_id,
     cycles_seen         |-> 1]

\* The VehicleState that update() stores, given the previous one.
NewVehicleState(previous, key, cycle_id, obs) ==
    [vehicle_key         |-> key,
     last_cycle_id       |-> cycle_id,
     last_observed_at    |-> obs.observed_at,
     last_lat            |-> obs.lat,
     last_lon            |-> obs.lon,
     last_stop_code      |-> obs.stop_code,
     last_line_number    |-> obs.line_number,
     first_seen_cycle_id |-> IF previous # None THEN previous[1].first_seen_cycle_id
                             ELSE cycle_id,
     cycles_seen         |-> IF previous # None THEN previous[1].cycles_seen + 1 ELSE 1]

\* update() replacing the bucket of the current cycle ordinal by the key.
TouchBucketReplace(buckets, counter, key) ==
    [c \in DOMAIN buckets \cup {counter} |->
        IF c = counter THEN {key} ELSE buckets[c]]

\* cycle_to_vehicles after update() has recorded the key under the current
\* cycle ordinal.
TouchBucket(buckets, counter, key) ==
    [c \in DOMAIN buckets \cup {counter} |->
        IF c = counter
        THEN (IF counter \in DOMAIN buckets THEN buckets[counter] ELSE {}) \cup {key}
        ELSE buckets[c]]

\* update(vehicle_key, cycle_id, observed_at, lat, lon, stop_code, line_number)
TrackerUpdate(key, cycle_id, obs) ==
    /\ LET previous == GetVehicleState(key) IN
       /\ IF previous = None THEN TRUE ELSE previous[1].cycles_seen < MaxSeen
       /\ vt_states' = [vt_states EXCEPT ![key] =
                            Some(NewVehicleState(previous, key, cycle_id, obs))]
       /\ vt_stored' = [vt_stored EXCEPT ![key] =
                            Some(NewVehicleState(previous, key, cycle_id, obs))]
       /\ vt_ret' = Ret("update", key, previous, vt_since[key], vt_stored[key], {},
                        Some([cycle_id |-> cycle_id, obs |-> obs]))
    /\ vt_buckets' = TouchBucket(vt_buckets, vt_counter, key)
    /\ vt_since' = [vt_since EXCEPT ![key] = 0]
    /\ UNCHANGED <<vt_ttl, vt_counter>>
    /\ UNCHANGED <<fetchVars, writerVars, limiterVars, cycleVars, foreverVars, keyVars, cliVars, legacyVars>>

\* The comparison with < in place of <=: the bucket of ordinal stale_cycle
\* survives one cleanup longer.
StaleBucketStrict(cycle_num, stale_cycle) == cycle_num < stale_cycle

\* `if cycle_num <= stale_cycle` : the bucket is dropped by this cleanup.
StaleBucket(cycle_num, stale_cycle) == cycle_num <= stale_cycle

\* cleanup() without its inner loop: every key of a dropped bucket is stale.
IsStaleUnchecked(buckets, key, stale_cycle) == TRUE

\* The inner loop of cleanup(): the key appears in no bucket newer than
\* stale_cycle.
IsStale(buckets, key, stale_cycle) ==
    ~ \E c \in DOMAIN buckets : c > stale_cycle /\ key \in buckets[c]

\* cleanup()
TrackerCleanup ==
    /\ vt_counter < MaxCleanups
    /\ vt_counter' = vt_counter + 1
    /\ LET stale_cycle == vt_counter' - vt_ttl IN
       IF stale_cycle < 0
       THEN /\ vt_ret' = Ret("cleanup", "", Some(0), -1, None, {}, None)
            /\ UNCHANGED <<vt_states, vt_buckets>>
       ELSE LET cycles_to_remove == {c \in DOMAIN vt_buckets : StaleBucket(c, stale_cycle)}
                vehicles_to_remove == UNION {vt_buckets[c] : c \in cycles_to_remove}
                removed == {k \in vehicles_to_remove :
                               /\ vt_states[k] # None
                               /\ IsStale(vt_buckets, k, stale_cycle)}
            IN /\ vt_states' = [k \in VehicleKeys |->
                                   IF k \in removed THEN None ELSE vt_states[k]]
               /\ vt_buckets' = [c \in DOMAIN vt_buckets \ cycles_to_remove |-> vt_buckets[c]]
               /\ vt_ret' = Ret("cleanup", "", Some(Cardinality(removed)), -1, None,
                                 vehicles_to_remove, None)
    /\ vt_since' = [k \in VehicleKeys |->
                       IF vt_since[k] < 0 THEN vt_since[k] ELSE vt_since[k] + 1]
    /\ UNCHANGED <<vt_ttl, vt_stored>>
    /\ UNCHANGED <<fetchVars, writerVars, limiterVars, cycleVars, foreverVars, keyVars, cliVars, legacyVars>>

\* The arguments of detect_movement(): current_stop_code, current_lat,
\* current_lon.
MovementArgs ==
    { [stop_code |-> "s1", lat |-> Some(11), lon |-> Some(20)],
      [stop_code |-> "s2", lat |-> None, lon |-> Some(20)],
      [stop_code |-> "s1", lat |-> Some(10), lon |-> None] }

\* detect_movement computing the distance whenever the current position is
\* complete, without looking at the stored one.
MovementResultCurrentOnly(previous, current) ==
    IF previous = None
    THEN [is_new |-> TRUE]
    ELSE [is_new             |-> FALSE,
          stop_changed       |-> previous[1].last_stop_code # current.stop_code,
          distance_km        |->
              IF current.lat # None /\ current.lon # None
              THEN Some([fn |-> "haversine_distance",
                         args |-> <<previous[1].last_lat, previous[1].last_lon,
                                    current.lat, current.lon>>])
              ELSE None,
          cycles_since_seen  |-> 1,
          previous_stop_code |-> previous[1].last_stop_code,
          previous_lat       |-> previous[1].last_lat,
          previous_lon       |-> previous[1].last_lon]

\* The dictionary detect_movement returns.  The distance is the call
\* haversine_distance(previous.last_lat, previous.last_lon, current_lat,
\* current_lon), kept as the call and its arguments.
MovementResult(previous, current) ==
    IF previous = None
    THEN [is_new |-> TRUE]
    ELSE [is_new             |-> FALSE,
          stop_changed       |-> previous[1].last_stop_code # current.stop_code,
          distance_km        |->
              IF /\ previous[1].last_lat # None /\ previous[1].last_lon # None
                 /\ current.lat # None /\ current.lon # None
              THEN Some([fn |-> "haversine_distance",
                         args |-> <<previous[1].last_lat, previous[1].last_lon,
                                    current.lat, current.lon>>])
              ELSE None,
          cycles_since_seen  |-> 1,
          previous_stop_code |-> previous[1].last_stop_code,
          previous_lat       |-> previous[1].last_lat,
          previous_lon       |-> previous[1].last_lon]

\* detect_movement(vehicle_key, current_stop_code, current_lat, current_lon)
TrackerDetectMovement(key, current) ==
    /\ vt_ret' = Ret("detect", key, Some(MovementResult(vt_states[key], current)), -1,
                     None, {}, Some(current))
    /\ UNCHANGED <<vt_ttl, vt_states, vt_counter, vt_buckets, vt_since, vt_stored>>
    /\ UNCHANGED <<fetchVars, writerVars, limiterVars, cycleVars, foreverVars, keyVars, cliVars, legacyVars>>

\* The observations stored before detect_movement is called: those of
\* Observations and one without longitude.
MovementObservations ==
    Observations \cup
        { [observed_at |-> 3, lat |-> Some(10), lon |-> None, stop_code |-> "s1",
           line_number |-> Some("7")] }

\* The tracker driven by updates of a single cycle id, cleanups and
\* detect_movement calls.
MovementNext ==
    \/ \E key \in VehicleKeys, obs \in MovementObservations : TrackerUpdate(key, "c1", obs)
    \/ TrackerCleanup
    \/ \E key \in VehicleKeys, current \in MovementArgs : TrackerDetectMovement(key, current)

TrackerNext ==
    \/ \E key \in VehicleKeys, cycle_id \in CycleIds, obs \in Observations :
           TrackerUpdate(key, cycle_id, obs)
    \/ TrackerCleanup

(***************************************************************************)
(* transformers: normalize_vehicle, build_vehicle_key, build_*_record      *)
(*                                                                         *)
(* Coordinates are integers in units of 10^-6 degree.                      *)
(***************************************************************************)

\* round_coordinate returning its argument unrounded.
RoundCoordinateExact(value) == value

\* utils.round_coordinate(value, 5): round to the nearest multiple of 10^-5
\* degree (ties to even, as Python's round).
RoundCoordinate(value) ==
    IF value = None THEN None
    ELSE LET x == value[1]
             q == x \div 10
             r == x % 10
         IN Some(IF r < 5 THEN q * 10
                 ELSE IF r > 5 THEN (q + 1) * 10
                 ELSE IF q % 2 = 0 THEN q * 10 ELSE (q + 1) * 10)

\* Python truthiness of an optional string: None and "" are falsy.
Truthy(opt) == opt # None /\ opt[1] # ""

\* build_vehicle_key testing `vehicle_id is not None` instead of its truth.
BuildVehicleKeyNotNone(vehicle_id, line_number, direction, lat, lon, stop_code) ==
    IF vehicle_id # None
    THEN [prefix |-> "garage", id |-> vehicle_id[1], digest |-> None]
    ELSE [prefix |-> "hash", id |-> "",
          digest |-> Some([line_number |-> line_number,
                           direction   |-> direction,
                           lat         |-> RoundCoordinate(lat),
                           lon         |-> RoundCoordinate(lon),
                           stop_code   |-> IF RoundCoordinate(lat) = None
                                              \/ RoundCoordinate(lon) = None
                                           THEN Some(stop_code) ELSE None])]

\* build_vehicle_key folding the stop code into every hashed payload.
BuildVehicleKeyAlwaysStop(vehicle_id, line_number, direction, lat, lon, stop_code) ==
    IF Truthy(vehicle_id)
    THEN [prefix |-> "garage", id |-> vehicle_id[1], digest |-> None]
    ELSE [prefix |-> "hash", id |-> "",
          digest |-> Some([line_number |-> line_number,
                           direction   |-> direction,
                           lat         |-> RoundCoordinate(lat),
                           lon         |-> RoundCoordinate(lon),
                           stop_code   |-> Some(stop_code)])]

\* transformers.build_vehicle_key.  The SHA-256 digest of the canonical JSON
\* is represented by the hashed payload itself (a collision-free digest).
BuildVehicleKey(vehicle_id, line_number, direction, lat, lon, stop_code) ==
    IF Truthy(vehicle_id)
    THEN [prefix |-> "garage", id |-> vehicle_id[1], digest |-> None]
    ELSE LET rlat == RoundCoordinate(lat)
             rlon == RoundCoordinate(lon)
         IN [prefix |-> "hash", id |-> "",
             digest |-> Some([line_number |-> line_number,
                              direction   |-> direction,
                              lat         |-> rlat,
                              lon         |-> rlon,
                              stop_code   |-> IF rlat = None \/ rlon = None
                                              THEN Some(stop_code) ELSE None])]

\* Entries of a payload's "vehicles" list.  `mapping` tells whether the
\* entry is a JSON object; an entry that is not has no .get().
RawVehicle(mapping, garageNo, lineNumber, direction, lat, lon) ==
    [mapping |-> mapping, garageNo |-> garageNo, lineNumber |-> lineNumber,
     direction |-> direction, lat |-> lat, lon |-> lon]

VehP1    == RawVehicle(TRUE, Some("P1"), Some("5"), None, Some(44792144), Some(20510880))
VehP1Far == RawVehicle(TRUE, Some("P1"), Some("5"), None, Some(44792156), Some(20510886))
VehP2    == RawVehicle(TRUE, Some("P2"), Some("7"), Some("A"), None, None)
VehHash  == RawVehicle(TRUE, None, Some("5"), Some("A"), Some(44792146), Some(20510880))
VehNoPos == RawVehicle(TRUE, Some(""), Some("5"), Some("A"), None, None)
NotAMapping == RawVehicle(FALSE, None, None, None, None, None)

\* transformers.normalize_vehicle: vehicle.get(...) raises AttributeError on
\* an entry that is not a mapping.
NormalizeVehicle(vehicle) ==
    [raised      |-> IF vehicle.mapping THEN None ELSE Some("AttributeError"),
     line_number |-> vehicle.lineNumber,
     direction   |-> vehicle.direction,
     vehicle_id  |-> vehicle.garageNo,
     vehicle_lat |-> vehicle.lat,
     vehicle_lon |-> vehicle.lon]

\* transformers.build_prediction_record (the fields the cycle reads or that
\* identify the row).
BuildPredictionRecord(stop, vehicle) ==
    LET n == NormalizeVehicle(vehicle) IN
    [stop_code   |-> stop,
     vehicle_id  |-> n.vehicle_id,
     line_number |-> n.line_number,
     vehicle_lat |-> n.vehicle_lat,
     vehicle_lon |-> n.vehicle_lon,
     vehicle_key |-> BuildVehicleKey(n.vehicle_id, n.line_number, n.direction,
                                     n.vehicle_lat, n.vehicle_lon, stop)]

\* build_vehicle_record leaving the position out of the record.
BuildVehicleRecordNoPosition(stop, prediction) ==
    [vehicle_key      |-> prediction.vehicle_key,
     vehicle_id       |-> prediction.vehicle_id,
     line_number      |-> prediction.line_number,
     vehicle_lat      |-> None,
     vehicle_lon      |-> None,
     source_stop_code |-> stop]

\* transformers.build_vehicle_record: the fields copied from the prediction
\* record and the stop the record is built for.
BuildVehicleRecord(stop, prediction) ==
    [vehicle_key      |-> prediction.vehicle_key,
     vehicle_id       |-> prediction.vehicle_id,
     line_number      |-> prediction.line_number,
     vehicle_lat      |-> prediction.vehicle_lat,
     vehicle_lon      |-> prediction.vehicle_lon,
     source_stop_code |-> stop]

\* build_error_record reporting the attempt count of the unexpected-exception
\* record (0) instead of the result's.
BuildErrorRecordNoAttempts(stop, result) ==
    [stop_code   |-> stop,
     error       |-> result.error,
     http_status |-> result.status,
     attempts    |-> 0]

\* transformers.build_error_record
BuildErrorRecord(stop, result) ==
    [stop_code   |-> stop,
     error       |-> result.error,
     http_status |-> result.status,
     attempts    |-> result.attempts]

\* The unexpected-exception record reported like a first-attempt failure.
UnexpectedRecordOneAttempt(stop) ==
    [stop_code   |-> stop,
     error       |-> Some(<<"unexpected", 0>>),
     http_status |-> None,
     attempts    |-> 1]

\* The record collect_once builds for an exception that escaped a worker.
UnexpectedRecord(stop) ==
    [stop_code   |-> stop,
     error       |-> Some(<<"unexpected", 0>>),
     http_status |-> None,
     attempts    |-> 0]

(***************************************************************************)
(* transformers.build_vehicle_key as a function of its arguments: two      *)
(* calls are made and their keys compared.                                 *)
(***************************************************************************)

\* The arguments explored.  The latitudes 44.792146 and 44.792149 round to
\* the same 5-decimal value, 44.792156 to the next one.
KeyVehicleIds  == {None, Some(""), Some("P1")}
KeyLineNumbers == {None, Some("5"), Some("7")}
KeyDirections  == {None, Some("A")}
KeyLats        == {None, Some(44792146), Some(44792149), Some(44792156)}
KeyLons        == {None, Some(20510880), Some(20510886)}
KeyStopCodes   == {"1001", "1002"}

KeyArgs ==
    [vehicle_id : KeyVehicleIds, line_number : KeyLineNumbers, direction : KeyDirections,
     lat : KeyLats, lon : KeyLons, stop_code : KeyStopCodes]

KeyInit ==
    /\ bk_args \in KeyArgs \X KeyArgs
    /\ bk_keys = None

KeyIdle ==
    /\ bk_args = None
    /\ bk_keys = None

KeyFor(a) ==
    BuildVehicleKey(a.vehicle_id, a.line_number, a.direction, a.lat, a.lon, a.stop_code)

\* The two calls.
BuildVehicleKeys ==
    /\ bk_args # None
    /\ bk_keys = None
    /\ bk_keys' = Some(<<KeyFor(bk_args[1]), KeyFor(bk_args[2])>>)
    /\ UNCHANGED bk_args
    /\ UNCHANGED <<fetchVars, writerVars, limiterVars, trackerVars, cycleVars, foreverVars,
                   cliVars, legacyVars>>

KeyNext == BuildVehicleKeys

(***************************************************************************)
(* cli.parse_args: from the parsed arguments to the CollectorConfig.       *)
(* Rates are in tenths of a request per second.                            *)
(***************************************************************************)

MIN_CONCURRENCY == 1
MIN_RETRIES == 0
MIN_INTERVAL_S == 0
MIN_RATE_LIMIT_RPS == 1
DEFAULT_RATE_LIMIT_ENABLED == TRUE
DEFAULT_VEHICLE_TRACKING_ENABLED == TRUE

\* The values of args.* explored.
CliArgs ==
    [rate_limit          : {-10, 0, 1, 500},
     no_rate_limit       : BOOLEAN,
     tracking_ttl_cycles : {-1, 0, 1, 5},
     no_vehicle_tracking : BOOLEAN,
     concurrency         : {0, 1, 8},
     retries             : {-1, 0, 2},
     interval            : {-1, 0, 30}]

CliInit ==
    /\ cli_args \in CliArgs
    /\ cli_config = None

CliIdle ==
    /\ cli_args = None
    /\ cli_config = None

\* The CollectorConfig parse_args builds (the fields the engine reads).
ConfigFrom(args) ==
    [concurrency                 |-> Max(MIN_CONCURRENCY, args.concurrency),
     retries                     |-> Max(MIN_RETRIES, args.retries),
     interval_s                  |-> Max(MIN_INTERVAL_S, args.interval),
     rate_limit_rps              |-> Max(MIN_RATE_LIMIT_RPS, args.rate_limit),
     rate_limit_enabled          |-> (~args.no_rate_limit) /\ DEFAULT_RATE_LIMIT_ENABLED,
     vehicle_tracking_enabled    |-> (~args.no_vehicle_tracking)
                                         /\ DEFAULT_VEHICLE_TRACKING_ENABLED,
     vehicle_tracking_ttl_cycles |-> args.tracking_ttl_cycles]

\* parse_args from `args = parser.parse_args(argv)` to its return.
ParseArgs ==
    /\ cli_args # None
    /\ cli_config = None
    /\ cli_config' = Some(ConfigFrom(cli_args))
    /\ UNCHANGED cli_args
    /\ UNCHANGED <<fetchVars, writerVars, limiterVars, trackerVars, cycleVars, foreverVars,
                   keyVars, legacyVars>>

CliNext == ParseArgs

(***************************************************************************)
(* orchestrator.collect_once                                               *)
(***************************************************************************)

\* Number of stops of the cycle and config.concurrency.
NumStops == 2
Concurrency == 2

Stops == 1..NumStops
Tables == {"predictions", "vehicles", "errors", "cycles"}
RecordTables == {"predictions", "vehicles", "errors"}

\* A JSON payload: a dict whose "vehicles" is the given list, or a dict
\* without a list under "vehicles".
PayloadWith(vehicles) == Some([is_dict |-> TRUE, has_list |-> TRUE, vehicles |-> vehicles])
PayloadNoList == Some([is_dict |-> TRUE, has_list |-> FALSE, vehicles |-> <<>>])

Succeeded(payload, attempts) ==
    [kind |-> "result", payload |-> payload, error |-> None, status |-> Some(200),
     attempts |-> attempts]
Failed(error, status, attempts) ==
    [kind |-> "result", payload |-> None, error |-> Some(error), status |-> status,
     attempts |-> attempts]
WorkerRaised ==
    [kind |-> "exception", payload |-> None, error |-> None, status |-> None, attempts |-> 0]

\* What the fetch task of a stop can end with: a FetchResult (successful
\* with some payload, or failed) or an exception.
CycleOutcomes ==
    { Succeeded(PayloadWith(<<VehP1>>), 1),
      Succeeded(PayloadWith(<<VehP1, VehP2>>), 2),
      Succeeded(PayloadWith(<<VehP1Far>>), 1),
      Succeeded(PayloadWith(<<VehHash, VehNoPos, VehHash>>), 1),
      Succeeded(PayloadWith(<<VehP2, NotAMapping, VehP1>>), 1),
      Succeeded(PayloadNoList, 1),
      Succeeded(None, 1),
      Failed(<<"http_error", 500>>, Some(500), 3),
      Failed(<<"url_error", 0>>, None, 1),
      WorkerRaised }

\* result.payload.get("vehicles") if isinstance(result.payload, dict) else
\* None; anything that is not a list counts as no vehicles.
VehiclesOf(payload) ==
    IF payload # None /\ payload[1].is_dict /\ payload[1].has_list
    THEN payload[1].vehicles
    ELSE <<>>

\* The membership test always answering "not seen": no deduplication.
SeenBeforeNever(key, seen) == FALSE

\* `prediction["vehicle_key"] in seen_vehicle_keys`
SeenBefore(key, seen) == key \in seen

\* The `for vehicle in vehicles` loop from entry i on.  acc carries
\* seen_vehicle_keys, the prediction and vehicle records built so far and
\* the exception that ended the loop, if any.
RECURSIVE ProcessVehicles(_, _, _, _)
ProcessVehicles(stop, vehicles, i, acc) ==
    IF i > Len(vehicles) THEN acc
    ELSE IF NormalizeVehicle(vehicles[i]).raised # None
    THEN [acc EXCEPT !.exc = NormalizeVehicle(vehicles[i]).raised]
    ELSE LET prediction == BuildPredictionRecord(stop, vehicles[i])
             key == prediction.vehicle_key
             dup == SeenBefore(key, acc.seen)
         IN ProcessVehicles(stop, vehicles, i + 1,
                [seen |-> acc.seen \cup {key},
                 predictions |-> Append(acc.predictions, prediction),
                 vehicles |-> IF dup THEN acc.vehicles
                              ELSE Append(acc.vehicles, BuildVehicleRecord(stop, prediction)),
                 exc |-> None])

Drained == {c_order[i] : i \in 1..Len(c_order)}

NoRecords == [t \in Tables |-> <<>>]

CycleInitWith(jsonl, clickhouse, outcome) ==
    /\ c_jsonl = jsonl
    /\ c_clickhouse = clickhouse
    /\ c_outcome = outcome
    /\ c_task = [s \in Stops |-> "queued"]
    /\ c_order = <<>>
    /\ c_pc = "aggregating"
    /\ c_exc = None
    /\ c_seen = {}
    /\ c_counts = [predictions |-> 0, unique_vehicles |-> 0, errors |-> 0, responses |-> 0]
    /\ c_jsonl_out = NoRecords
    /\ c_ch_out = NoRecords
    /\ c_closed = {}
    /\ c_summary = None
    /\ c_admitted = {}

CycleInit ==
    \E jsonl \in BOOLEAN, clickhouse \in BOOLEAN, outcome \in [Stops -> CycleOutcomes] :
        CycleInitWith(jsonl, clickhouse, outcome)

CycleIdle == CycleInitWith(FALSE, TRUE, [s \in Stops |-> Succeeded(None, 1)])

\* A pool worker takes a submitted task: it calls fetch_stop(stop_code, ...),
\* the callable handed to executor.submit, and nothing before it.
StartTask(s) ==
    /\ c_pc \in {"aggregating", "shutdown"}
    /\ c_task[s] = "queued"
    /\ Cardinality({t \in Stops : c_task[t] = "running"}) < Concurrency
    /\ c_task' = [c_task EXCEPT ![s] = "running"]
    /\ UNCHANGED <<c_admitted, c_jsonl, c_clickhouse, c_outcome, c_order, c_pc, c_exc, c_seen, c_counts,
                   c_jsonl_out, c_ch_out, c_closed, c_summary>>
    /\ UNCHANGED <<fetchVars, writerVars, limiterVars, trackerVars, foreverVars, keyVars, cliVars, legacyVars>>

\* fetch_stop ends in the worker: the future completes.
FinishTask(s) ==
    /\ c_pc \in {"aggregating", "shutdown"}
    /\ c_task[s] = "running"
    /\ c_task' = [c_task EXCEPT ![s] = "done"]
    /\ UNCHANGED <<c_admitted, c_jsonl, c_clickhouse, c_outcome, c_order, c_pc, c_exc, c_seen, c_counts,
                   c_jsonl_out, c_ch_out, c_closed, c_summary>>
    /\ UNCHANGED <<fetchVars, writerVars, limiterVars, trackerVars, foreverVars, keyVars, cliVars, legacyVars>>

\* `if writer: writer.write(record)` for both sinks, for the records of each table.
RouteAll(records) ==
    /\ c_jsonl_out' = IF c_jsonl
                      THEN [t \in Tables |-> c_jsonl_out[t] \o records[t]]
                      ELSE c_jsonl_out
    /\ c_ch_out' = IF c_clickhouse
                   THEN [t \in Tables |-> c_ch_out[t] \o records[t]]
                   ELSE c_ch_out

\* One iteration of `for future in as_completed(future_to_stop)`.
Drain(s) ==
    /\ c_pc = "aggregating"
    /\ c_task[s] = "done"
    /\ s \notin Drained
    /\ c_order' = Append(c_order, s)
    /\ LET result == c_outcome[s] IN
       IF result.kind = "exception"
       THEN \* future.result() raises
            /\ c_counts' = [c_counts EXCEPT !.errors = @ + 1]
            /\ RouteAll([NoRecords EXCEPT !["errors"] = <<UnexpectedRecord(s)>>])
            /\ UNCHANGED <<c_pc, c_exc, c_seen>>
       ELSE IF result.error # None
       THEN /\ c_counts' = [c_counts EXCEPT !.responses = @ + 1, !.errors = @ + 1]
            /\ RouteAll([NoRecords EXCEPT !["errors"] = <<BuildErrorRecord(s, result)>>])
            /\ UNCHANGED <<c_pc, c_exc, c_seen>>
       ELSE LET acc == ProcessVehicles(s, VehiclesOf(result.payload), 1,
                           [seen |-> c_seen, predictions |-> <<>>, vehicles |-> <<>>,
                            exc |-> None])
            IN /\ c_counts' = [c_counts EXCEPT
                                   !.responses = @ + 1,
                                   !.predictions = @ + Len(acc.predictions),
                                   !.unique_vehicles = @ + Len(acc.vehicles)]
               /\ c_seen' = acc.seen
               /\ RouteAll([NoRecords EXCEPT !["predictions"] = acc.predictions,
                                             !["vehicles"] = acc.vehicles])
               /\ c_exc' = acc.exc
               /\ c_pc' = IF acc.exc = None THEN c_pc ELSE "shutdown"
    /\ UNCHANGED <<c_admitted, c_jsonl, c_clickhouse, c_outcome, c_task, c_closed, c_summary>>
    /\ UNCHANGED <<fetchVars, writerVars, limiterVars, trackerVars, foreverVars, keyVars, cliVars, legacyVars>>

\* The as_completed loop ends once every future has been consumed.
LoopEnd ==
    /\ c_pc = "aggregating"
    /\ Drained = Stops
    /\ c_pc' = "shutdown"
    /\ UNCHANGED <<c_admitted, c_jsonl, c_clickhouse, c_outcome, c_task, c_order, c_exc, c_seen, c_counts,
                   c_jsonl_out, c_ch_out, c_closed, c_summary>>
    /\ UNCHANGED <<fetchVars, writerVars, limiterVars, trackerVars, foreverVars, keyVars, cliVars, legacyVars>>

\* Leaving the pool with shutdown(wait=False): tasks may still be running.
ExitPoolNoWait ==
    /\ c_pc = "shutdown"
    /\ c_pc' = "closing"
    /\ UNCHANGED <<c_admitted, c_jsonl, c_clickhouse, c_outcome, c_task, c_order, c_exc, c_seen, c_counts,
                   c_jsonl_out, c_ch_out, c_closed, c_summary>>
    /\ UNCHANGED <<fetchVars, writerVars, limiterVars, trackerVars, foreverVars, keyVars, cliVars, legacyVars>>

\* Leaving `with ThreadPoolExecutor(...)`: shutdown(wait=True) returns when
\* every submitted task has run.
ExitPool ==
    /\ c_pc = "shutdown"
    /\ \A s \in Stops : c_task[s] = "done"
    /\ c_pc' = "closing"
    /\ UNCHANGED <<c_admitted, c_jsonl, c_clickhouse, c_outcome, c_task, c_order, c_exc, c_seen, c_counts,
                   c_jsonl_out, c_ch_out, c_closed, c_summary>>
    /\ UNCHANGED <<fetchVars, writerVars, limiterVars, trackerVars, foreverVars, keyVars, cliVars, legacyVars>>

OpenedWriters ==
    {<<"jsonl", t>> : t \in IF c_jsonl THEN RecordTables ELSE {}}
    \cup {<<"clickhouse", t>> : t \in IF c_clickhouse THEN RecordTables ELSE {}}

\* The close() calls of the finally block, in the order the code makes them.
CloseOrder ==
    (IF c_jsonl
     THEN <<<<"jsonl", "predictions">>, <<"jsonl", "vehicles">>, <<"jsonl", "errors">>>>
     ELSE <<>>)
    \o (IF c_clickhouse
        THEN <<<<"clickhouse", "predictions">>, <<"clickhouse", "vehicles">>,
               <<"clickhouse", "errors">>>>
        ELSE <<>>)

\* The finally block: close() on every record writer, one after the other.
\* failing = 0: every close() returns.  failing = k > 0: the k-th close()
\* raises (OSError from the file handle, or what flush() lets through), which
\* ends the finally block there.  An exception in flight, or the one a close
\* raised, then leaves collect_once.
CloseWriters(failing) ==
    /\ c_pc = "closing"
    /\ failing \in 0..Len(CloseOrder)
    /\ c_closed' = IF failing = 0 THEN OpenedWriters
                   ELSE {CloseOrder[i] : i \in 1..failing}
    /\ c_exc' = IF failing = 0 THEN c_exc ELSE Some("CloseError")
    /\ c_pc' = IF c_exc' = None THEN "summarizing" ELSE "raised"
    /\ UNCHANGED <<c_admitted, c_jsonl, c_clickhouse, c_outcome, c_task, c_order, c_seen, c_counts,
                   c_jsonl_out, c_ch_out, c_summary>>
    /\ UNCHANGED <<fetchVars, writerVars, limiterVars, trackerVars, foreverVars, keyVars, cliVars, legacyVars>>

\* The summary reporting as responses only the results that were not errors.
CycleSummarySuccessesOnly ==
    [stops_total     |-> NumStops,
     responses       |-> c_counts.responses - c_counts.errors,
     errors          |-> c_counts.errors,
     predictions     |-> c_counts.predictions,
     unique_vehicles |-> c_counts.unique_vehicles]

\* CycleSummary(...) from the counters.
CycleSummary ==
    [stops_total     |-> NumStops,
     responses       |-> c_counts.responses,
     errors          |-> c_counts.errors,
     predictions     |-> c_counts.predictions,
     unique_vehicles |-> c_counts.unique_vehicles]

\* The summary is built, written to the cycles table of every enabled sink
\* and returned.
EmitSummary ==
    /\ c_pc = "summarizing"
    /\ c_summary' = Some(CycleSummary)
    /\ RouteAll([NoRecords EXCEPT !["cycles"] = <<CycleSummary>>])
    /\ c_closed' = c_closed
                   \cup (IF c_jsonl THEN {<<"jsonl", "cycles">>} ELSE {})
                   \cup (IF c_clickhouse THEN {<<"clickhouse", "cycles">>} ELSE {})
    /\ c_pc' = "returned"
    /\ UNCHANGED <<c_admitted, c_jsonl, c_clickhouse, c_outcome, c_task, c_order, c_exc, c_seen, c_counts>>
    /\ UNCHANGED <<fetchVars, writerVars, limiterVars, trackerVars, foreverVars, keyVars, cliVars, legacyVars>>

CycleNext ==
    \/ \E s \in Stops : StartTask(s)
    \/ \E s \in Stops : FinishTask(s)
    \/ \E s \in Stops : Drain(s)
    \/ LoopEnd
    \/ ExitPool
    \/ \E failing \in 0..(2 * Cardinality(RecordTables)) : CloseWriters(failing)
    \/ EmitSummary

(***************************************************************************)
(* orchestrator.collect_forever                                            *)
(*                                                                         *)
(* Time is counted in ticks.  What time.monotonic() - started reads after  *)
(* a cycle is an input of the step that follows collect_once.              *)
(***************************************************************************)

\* Number of cycles explored and the longest cycle duration explored.
MaxCycles == 2
MaxElapsed == 2

\* config.interval_s values: negative, zero, shorter and longer than a cycle
\* can take.
IntervalArgs == {-1, 0, 1, MaxElapsed}

\* The fetch outcomes explored per stop in the cycles of collect_forever.
ForeverOutcomes ==
    { Succeeded(PayloadWith(<<VehP1>>), 1),
      Failed(<<"http_error", 500>>, Some(500), 3),
      Succeeded(PayloadWith(<<VehP2, NotAMapping, VehP1>>), 1) }

\* Before the first iteration of `while True`.
ForeverInitWith(jsonl, clickhouse, interval) ==
    /\ cf_interval = interval
    /\ cf_pc = "start"
    /\ cf_cycle = 0
    /\ cf_last = None
    /\ cf_prev = None
    /\ cf_starts = <<>>
    /\ c_jsonl = jsonl
    /\ c_clickhouse = clickhouse
    /\ c_outcome = [s \in Stops |-> Succeeded(None, 1)]
    /\ c_task = [s \in Stops |-> "queued"]
    /\ c_order = <<>>
    /\ c_pc = "not_called"
    /\ c_exc = None
    /\ c_seen = {}
    /\ c_counts = [predictions |-> 0, unique_vehicles |-> 0, errors |-> 0, responses |-> 0]
    /\ c_jsonl_out = NoRecords
    /\ c_ch_out = NoRecords
    /\ c_closed = {}
    /\ c_summary = None
    /\ c_admitted = {}

ForeverInit ==
    \E jsonl \in BOOLEAN, clickhouse \in BOOLEAN, interval \in IntervalArgs :
        ForeverInitWith(jsonl, clickhouse, interval)

\* collect_once is called on its own, not from collect_forever.
ForeverIdle ==
    /\ cf_interval = 0
    /\ cf_pc = "off"
    /\ cf_cycle = 0
    /\ cf_last = None
    /\ cf_prev = None
    /\ cf_starts = <<>>

\* The time unit of interval_s, elapsed and the wall clock is half a second.
TicksPerSecond == 2

\* started_at.strftime(CYCLE_ID_FORMAT) with the format "%Y%m%dT%H%M%SZ":
\* the start time truncated to whole seconds.
CycleIdOf(started_at) == started_at \div TicksPerSecond

\* How the cycle that just ended stands, as seen when the next one starts.
CycleSnapshot ==
    [tasks_done |-> \A s \in Stops : c_task[s] = "done",
     closed     |-> OpenedWriters \subseteq c_closed,
     summary    |-> c_summary # None,
     rows       |-> [jsonl      |-> Len(c_jsonl_out["cycles"]),
                     clickhouse |-> Len(c_ch_out["cycles"])]]

\* `started = time.monotonic(); summary = collect_once(stops, config)`: the
\* call is made and collect_once sets up its writers and counters.
ForeverStartCycle(outcome) ==
    /\ cf_pc = "start"
    /\ cf_cycle < MaxCycles
    /\ cf_cycle' = cf_cycle + 1
    /\ cf_pc' = "in_cycle"
    /\ cf_prev' = IF cf_cycle = 0 THEN None ELSE Some(CycleSnapshot)
    /\ cf_last' = None
    /\ IF cf_cycle = 0
       THEN \E now \in 0..(TicksPerSecond - 1) : cf_starts' = <<now>>
       ELSE cf_starts' = Append(cf_starts,
                                cf_starts[Len(cf_starts)] + cf_last[1].elapsed
                                + (IF cf_last[1].slept = None THEN 0
                                   ELSE cf_last[1].slept[1]))
    /\ c_outcome' = outcome
    /\ c_task' = [s \in Stops |-> "queued"]
    /\ c_order' = <<>>
    /\ c_pc' = "aggregating"
    /\ c_exc' = None
    /\ c_seen' = {}
    /\ c_counts' = [predictions |-> 0, unique_vehicles |-> 0, errors |-> 0, responses |-> 0]
    /\ c_jsonl_out' = NoRecords
    /\ c_ch_out' = NoRecords
    /\ c_closed' = {}
    /\ c_admitted' = {}
    /\ c_summary' = None
    /\ UNCHANGED <<cf_interval, c_jsonl, c_clickhouse>>
    /\ UNCHANGED <<fetchVars, writerVars, limiterVars, trackerVars, keyVars, cliVars, legacyVars>>

\* The loop going on without waiting for collect_once.
CollectOnceReturnedEarly == TRUE

\* collect_once has returned its summary to collect_forever.
CollectOnceReturned == c_pc = "returned"

\* A fixed gap between cycles, whatever the cycle took.
SleepForFixedGap(interval, elapsed) == interval

\* sleep_for = max(0.0, config.interval_s - elapsed)
SleepFor(interval, elapsed) == Max(0, interval - elapsed)

\* After collect_once returned: the ETL step (with ClickHouse enabled; what
\* process_cycle raises is logged and dropped), the exit test on interval_s,
\* and the sleep.
ForeverAfterCycle(elapsed, etl) ==
    /\ cf_pc = "in_cycle"
    /\ CollectOnceReturned
    /\ etl \in (IF c_clickhouse THEN {"ok", "raised_and_logged"} ELSE {"not_run"})
    /\ IF cf_interval <= 0
       THEN /\ cf_pc' = "returned"
            /\ cf_last' = Some([elapsed |-> elapsed, etl |-> etl, slept |-> None])
       ELSE LET sleep_for == SleepFor(cf_interval, elapsed) IN
            IF sleep_for # 0
            THEN /\ cf_pc' = "sleeping"
                 /\ cf_last' = Some([elapsed |-> elapsed, etl |-> etl,
                                     slept |-> Some(sleep_for)])
            ELSE /\ cf_pc' = "start"
                 /\ cf_last' = Some([elapsed |-> elapsed, etl |-> etl, slept |-> None])
    /\ UNCHANGED <<cf_interval, cf_cycle, cf_prev, cf_starts>>
    /\ UNCHANGED <<fetchVars, writerVars, limiterVars, trackerVars, cycleVars, keyVars, cliVars, legacyVars>>

\* collect_once raised: nothing in collect_forever catches it.
ForeverCycleRaised ==
    /\ cf_pc = "in_cycle"
    /\ c_pc = "raised"
    /\ cf_pc' = "raised"
    /\ UNCHANGED <<cf_interval, cf_cycle, cf_last, cf_prev, cf_starts>>
    /\ UNCHANGED <<fetchVars, writerVars, limiterVars, trackerVars, cycleVars, keyVars, cliVars, legacyVars>>

\* time.sleep(sleep_for) returns.
ForeverWake ==
    /\ cf_pc = "sleeping"
    /\ cf_pc' = "start"
    /\ UNCHANGED <<cf_interval, cf_cycle, cf_last, cf_prev, cf_starts>>
    /\ UNCHANGED <<fetchVars, writerVars, limiterVars, trackerVars, cycleVars, keyVars, cliVars, legacyVars>>

ForeverNext ==
    \/ \E outcome \in [Stops -> ForeverOutcomes] : ForeverStartCycle(outcome)
    \/ \E elapsed \in 0..MaxElapsed, etl \in {"ok", "raised_and_logged", "not_run"} :
           ForeverAfterCycle(elapsed, etl)
    \/ ForeverCycleRaised
    \/ ForeverWake
    \/ CycleNext

(***************************************************************************)
(* collector.collect_once: the single-module implementation, which always  *)
(* writes JSONL.  It is run on the stops, fetch outcomes and completion    *)
(* order of the orchestrator's cycle: it consumes the futures in the order *)
(* c_order records.                                                        *)
(***************************************************************************)

\* collector._prediction_record with the key always hashed over the stop code.
LegacyPredictionRecordStopInHash(stop, vehicle) ==
    LET _round_coord(value) ==
            IF value = None THEN None
            ELSE LET q == value[1] \div 10
                     r == value[1] % 10
                 IN Some(IF r < 5 THEN q * 10
                         ELSE IF r > 5 THEN (q + 1) * 10
                         ELSE IF q % 2 = 0 THEN q * 10 ELSE (q + 1) * 10)
        vehicle_id == vehicle.garageNo
        vehicle_key ==
            IF vehicle_id # None /\ vehicle_id[1] # ""
            THEN [prefix |-> "garage", id |-> vehicle_id[1], digest |-> None]
            ELSE [prefix |-> "hash", id |-> "",
                  digest |-> Some([line_number |-> vehicle.lineNumber,
                                   direction   |-> vehicle.direction,
                                   lat         |-> _round_coord(vehicle.lat),
                                   lon         |-> _round_coord(vehicle.lon),
                                   stop_code   |-> Some(stop)])]
    IN [stop_code   |-> stop,
        vehicle_id  |-> vehicle_id,
        line_number |-> vehicle.lineNumber,
        vehicle_lat |-> vehicle.lat,
        vehicle_lon |-> vehicle.lon,
        vehicle_key |-> vehicle_key]

\* collector._prediction_record, with _normalize_vehicle, _build_vehicle_key
\* and _round_coord (round(value, 5)) as it calls them: the fields the cycle
\* reads or that identify the row.
LegacyPredictionRecord(stop, vehicle) ==
    LET _round_coord(value) ==
            IF value = None THEN None
            ELSE LET q == value[1] \div 10
                     r == value[1] % 10
                 IN Some(IF r < 5 THEN q * 10
                         ELSE IF r > 5 THEN (q + 1) * 10
                         ELSE IF q % 2 = 0 THEN q * 10 ELSE (q + 1) * 10)
        vehicle_id == vehicle.garageNo
        vehicle_key ==
            IF vehicle_id # None /\ vehicle_id[1] # ""
            THEN [prefix |-> "garage", id |-> vehicle_id[1], digest |-> None]
            ELSE [prefix |-> "hash", id |-> "",
                  digest |-> Some([line_number |-> vehicle.lineNumber,
                                   direction   |-> vehicle.direction,
                                   lat         |-> _round_coord(vehicle.lat),
                                   lon         |-> _round_coord(vehicle.lon),
                                   stop_code   |-> IF _round_coord(vehicle.lat) = None
                                                      \/ _round_coord(vehicle.lon) = None
                                                   THEN Some(stop) ELSE None])]
    IN [stop_code   |-> stop,
        vehicle_id  |-> vehicle_id,
        line_number |-> vehicle.lineNumber,
        vehicle_lat |-> vehicle.lat,
        vehicle_lon |-> vehicle.lon,
        vehicle_key |-> vehicle_key]

\* collector._vehicle_record
LegacyVehicleRecord(stop, prediction) ==
    [vehicle_key      |-> prediction.vehicle_key,
     vehicle_id       |-> prediction.vehicle_id,
     line_number      |-> prediction.line_number,
     vehicle_lat      |-> prediction.vehicle_lat,
     vehicle_lon      |-> prediction.vehicle_lon,
     source_stop_code |-> stop]

\* collector._error_record
LegacyErrorRecord(stop, result) ==
    [stop_code   |-> stop,
     error       |-> result.error,
     http_status |-> result.status,
     attempts    |-> result.attempts]

\* The `for vehicle in vehicles` loop of collector.collect_once from entry i
\* on; _normalize_vehicle raises AttributeError on an entry without .get().
RECURSIVE LegacyProcessVehicles(_, _, _, _)
LegacyProcessVehicles(stop, vehicles, i, acc) ==
    IF i > Len(vehicles) THEN acc
    ELSE IF ~ vehicles[i].mapping
    THEN [acc EXCEPT !.exc = Some("AttributeError")]
    ELSE LET prediction == LegacyPredictionRecord(stop, vehicles[i])
             key == prediction.vehicle_key
         IN LegacyProcessVehicles(stop, vehicles, i + 1,
                [seen |-> acc.seen \cup {key},
                 predictions |-> Append(acc.predictions, prediction),
                 vehicles |-> IF key \in acc.seen THEN acc.vehicles
                              ELSE Append(acc.vehicles, LegacyVehicleRecord(stop, prediction)),
                 exc |-> None])

\* collector.collect_once after its writers and counters are set up; also
\* its state while it is not run.
LegacyIdle ==
    /\ lg_n = 0
    /\ lg_pc = "aggregating"
    /\ lg_exc = None
    /\ lg_seen = {}
    /\ lg_counts = [predictions |-> 0, unique_vehicles |-> 0, errors |-> 0, responses |-> 0]
    /\ lg_jsonl_out = NoRecords
    /\ lg_ch_out = NoRecords
    /\ lg_closed = {}
    /\ lg_summary = None

\* One iteration of `for future in as_completed(future_to_stop)` in
\* collector.collect_once: the JSONL writers are written unconditionally,
\* the ClickHouse writers when they exist.
LegacyDrain ==
    /\ lg_pc = "aggregating"
    /\ lg_exc = None
    /\ lg_n < Len(c_order)
    /\ lg_n' = lg_n + 1
    /\ LET s == c_order[lg_n + 1]
           result == c_outcome[s]
           route(records) ==
               /\ lg_jsonl_out' = [t \in Tables |-> lg_jsonl_out[t] \o records[t]]
               /\ lg_ch_out' = IF c_clickhouse
                               THEN [t \in Tables |-> lg_ch_out[t] \o records[t]]
                               ELSE lg_ch_out
       IN IF result.kind = "exception"
          THEN /\ lg_counts' = [lg_counts EXCEPT !.errors = @ + 1]
               /\ route([NoRecords EXCEPT !["errors"] =
                            <<[stop_code   |-> s,
                               error       |-> Some(<<"unexpected", 0>>),
                               http_status |-> None,
                               attempts    |-> 0]>>])
               /\ UNCHANGED <<lg_exc, lg_seen>>
          ELSE IF result.error # None
          THEN /\ lg_counts' = [lg_counts EXCEPT !.responses = @ + 1, !.errors = @ + 1]
               /\ route([NoRecords EXCEPT !["errors"] = <<LegacyErrorRecord(s, result)>>])
               /\ UNCHANGED <<lg_exc, lg_seen>>
          ELSE LET acc == LegacyProcessVehicles(s, VehiclesOf(result.payload), 1,
                              [seen |-> lg_seen, predictions |-> <<>>, vehicles |-> <<>>,
                               exc |-> None])
               IN /\ lg_counts' = [lg_counts EXCEPT
                                      !.responses = @ + 1,
                                      !.predictions = @ + Len(acc.predictions),
                                      !.unique_vehicles = @ + Len(acc.vehicles)]
                  /\ lg_seen' = acc.seen
                  /\ route([NoRecords EXCEPT !["predictions"] = acc.predictions,
                                             !["vehicles"] = acc.vehicles])
                  /\ lg_exc' = acc.exc
    /\ UNCHANGED <<lg_pc, lg_closed, lg_summary>>
    /\ UNCHANGED <<fetchVars, writerVars, limiterVars, trackerVars, cycleVars, foreverVars,
                   keyVars, cliVars>>

\* Leaving the `with ThreadPoolExecutor` block, which waits for every task,
\* and the finally block of collector.collect_once: close() on the three
\* JSONL writers, then on the ClickHouse writers that exist.  failing = 0:
\* every close() returns; failing = k > 0: the k-th close() raises.
LegacyCloseWriters(failing) ==
    /\ lg_pc = "aggregating"
    /\ lg_exc # None \/ lg_n = NumStops
    /\ \A s \in Stops : c_task[s] = "done"
    /\ LET order == <<<<"jsonl", "predictions">>, <<"jsonl", "vehicles">>,
                      <<"jsonl", "errors">>>>
                    \o (IF c_clickhouse
                        THEN <<<<"clickhouse", "predictions">>, <<"clickhouse", "vehicles">>,
                               <<"clickhouse", "errors">>>>
                        ELSE <<>>)
       IN /\ failing \in 0..Len(order)
          /\ lg_closed' = {order[i] : i \in 1..(IF failing = 0 THEN Len(order) ELSE failing)}
          /\ lg_exc' = IF failing = 0 THEN lg_exc ELSE Some("CloseError")
          /\ lg_pc' = IF lg_exc' = None THEN "summarizing" ELSE "raised"
    /\ UNCHANGED <<lg_n, lg_seen, lg_counts, lg_jsonl_out, lg_ch_out, lg_summary>>
    /\ UNCHANGED <<fetchVars, writerVars, limiterVars, trackerVars, cycleVars, foreverVars,
                   keyVars, cliVars>>

\* collector.collect_once builds the summary, writes it to cycles.jsonl, and
\* to raw_cycles when ClickHouse is enabled, and returns it.
LegacyEmitSummary ==
    /\ lg_pc = "summarizing"
    /\ LET summary == [stops_total     |-> NumStops,
                       responses       |-> lg_counts.responses,
                       errors          |-> lg_counts.errors,
                       predictions     |-> lg_counts.predictions,
                       unique_vehicles |-> lg_counts.unique_vehicles]
       IN /\ lg_summary' = Some(summary)
          /\ lg_jsonl_out' = [lg_jsonl_out EXCEPT !["cycles"] = Append(@, summary)]
          /\ lg_ch_out' = IF c_clickhouse
                          THEN [lg_ch_out EXCEPT !["cycles"] = Append(@, summary)]
                          ELSE lg_ch_out
    /\ lg_closed' = lg_closed \cup {<<"jsonl", "cycles">>}
                    \cup (IF c_clickhouse THEN {<<"clickhouse", "cycles">>} ELSE {})
    /\ lg_pc' = "returned"
    /\ UNCHANGED <<lg_n, lg_exc, lg_seen, lg_counts>>
    /\ UNCHANGED <<fetchVars, writerVars, limiterVars, trackerVars, cycleVars, foreverVars,
                   keyVars, cliVars>>

\* Both implementations of collect_once on one pool of fetch tasks.
LegacyNext ==
    \/ CycleNext
    \/ LegacyDrain
    \/ \E failing \in 0..(2 * Cardinality(RecordTables)) : LegacyCloseWriters(failing)
    \/ LegacyEmitSummary

(***************************************************************************)
(* Specifications                                                          *)
(***************************************************************************)

InitFetch   == FetchInit /\ WriterIdle /\ LimiterIdle /\ TrackerIdle /\ CycleIdle /\ ForeverIdle /\ KeyIdle /\ CliIdle /\ LegacyIdle
InitWriter  == FetchIdle /\ WriterInit /\ LimiterIdle /\ TrackerIdle /\ CycleIdle /\ ForeverIdle /\ KeyIdle /\ CliIdle /\ LegacyIdle
InitLimiter == FetchIdle /\ WriterIdle /\ LimiterInit /\ TrackerIdle /\ CycleIdle /\ ForeverIdle /\ KeyIdle /\ CliIdle /\ LegacyIdle
InitTracker == FetchIdle /\ WriterIdle /\ LimiterIdle /\ TrackerInit /\ CycleIdle /\ ForeverIdle /\ KeyIdle /\ CliIdle /\ LegacyIdle
InitCycle   == FetchIdle /\ WriterIdle /\ LimiterIdle /\ TrackerIdle /\ CycleInit /\ ForeverIdle /\ KeyIdle /\ CliIdle /\ LegacyIdle
InitForever == FetchIdle /\ WriterIdle /\ LimiterIdle /\ TrackerIdle /\ ForeverInit /\ KeyIdle /\ CliIdle /\ LegacyIdle
InitKey     == FetchIdle /\ WriterIdle /\ LimiterIdle /\ TrackerIdle /\ CycleIdle /\ ForeverIdle /\ KeyInit /\ CliIdle /\ LegacyIdle
InitCli     == FetchIdle /\ WriterIdle /\ LimiterIdle /\ TrackerIdle /\ CycleIdle /\ ForeverIdle /\ KeyIdle /\ CliInit /\ LegacyIdle
InitLegacy  ==
    /\ FetchIdle /\ WriterIdle /\ LimiterIdle /\ TrackerIdle /\ ForeverIdle /\ KeyIdle /\ CliIdle
    /\ LegacyIdle
    /\ \E clickhouse \in BOOLEAN, outcome \in [Stops -> CycleOutcomes] :
           CycleInitWith(TRUE, clickhouse, outcome)

SpecFetch   == InitFetch /\ [][FetchNext]_vars
SpecWriter  == InitWriter /\ [][WriterNext]_vars
SpecLimiter == InitLimiter /\ [][LimiterNext]_vars
SpecTracker == InitTracker /\ [][TrackerNext]_vars
SpecMovement == InitTracker /\ [][MovementNext]_vars
SpecCycle   == InitCycle /\ [][CycleNext]_vars
SpecForever == InitForever /\ [][ForeverNext]_vars
SpecKey     == InitKey /\ [][KeyNext]_vars
SpecCli     == InitCli /\ [][CliNext]_vars
SpecLegacy  == InitLegacy /\ [][LegacyNext]_vars

\* The limiter with time advancing, every worker's loop making progress and
\* the lock granted fairly.
SpecLimiterFair ==
    /\ InitLimiter
    /\ [][LimiterNext]_vars
    /\ WF_vars(Tick)
    /\ \A w \in Workers :
          /\ SF_vars(AcquireLock(w))
          /\ WF_vars(AcquirePoll(w))
          /\ WF_vars(AcquireWake(w))
          /\ SF_vars(GetReturn(w))

(***************************************************************************)
(* Properties of the cycle                                                 *)
(***************************************************************************)

Range(seq) == {seq[i] : i \in 1..Len(seq)}

\* Stops whose fetch returned a FetchResult without error, with an error, and
\* whose worker raised.
SuccessStops == {s \in Stops : c_outcome[s].kind = "result" /\ c_outcome[s].error = None}
FailedStops  == {s \in Stops : c_outcome[s].kind = "result" /\ c_outcome[s].error # None}
RaisedStops  == {s \in Stops : c_outcome[s].kind = "exception"}

\* The vehicle observations of a successful stop's payload.
ObservationsOf(s) == VehiclesOf(c_outcome[s].payload)

Untransformable(s) ==
    /\ s \in SuccessStops
    /\ \E i \in 1..Len(ObservationsOf(s)) : NormalizeVehicle(ObservationsOf(s)[i]).raised # None

RECURSIVE TotalObservations(_)
TotalObservations(stops) ==
    IF stops = {} THEN 0
    ELSE LET s == CHOOSE x \in stops : TRUE
         IN Len(ObservationsOf(s)) + TotalObservations(stops \ {s})

KeyOf(s, i) == BuildPredictionRecord(s, ObservationsOf(s)[i]).vehicle_key
AllKeys == UNION {{KeyOf(s, i) : i \in 1..Len(ObservationsOf(s))} : s \in SuccessStops}

\* The record streams of the enabled sinks.
EnabledOutputs ==
    (IF c_jsonl THEN {c_jsonl_out} ELSE {}) \cup (IF c_clickhouse THEN {c_ch_out} ELSE {})

\* In one sink: vehicle records carry pairwise distinct keys, there is one for
\* every key among the prediction records, and its source stop is the stop of
\* the first prediction record with that key.
OneVehiclePerKey(out) ==
    /\ \A i, j \in 1..Len(out["vehicles"]) :
          out["vehicles"][i].vehicle_key = out["vehicles"][j].vehicle_key => i = j
    /\ {v.vehicle_key : v \in Range(out["vehicles"])}
           = {p.vehicle_key : p \in Range(out["predictions"])}
    /\ \A v \in Range(out["vehicles"]) :
          LET first == CHOOSE i \in 1..Len(out["predictions"]) :
                          /\ out["predictions"][i].vehicle_key = v.vehicle_key
                          /\ \A j \in 1..(i - 1) :
                                out["predictions"][j].vehicle_key # v.vehicle_key
          IN v.source_stop_code = out["predictions"][first].stop_code

\* C1: an entry of a vehicles list that cannot be transformed does not abort
\* the cycle: when collect_once ends, it has returned a CycleSummary, every
\* stop's outcome has been processed and the writers are closed.
C1_TransformFailureDoesNotAbort ==
    ((\E s \in Stops : Untransformable(s)) /\ c_pc \in {"returned", "raised"})
        => /\ c_pc = "returned"
           /\ c_summary # None
           /\ Drained = Stops
           /\ OpenedWriters \subseteq c_closed

\* C5: the summary of a cycle counts every vehicle observation of every
\* successful payload as a prediction and every distinct vehicle key once,
\* and every enabled sink gets exactly one VehicleRecord per distinct key,
\* built from the key's first occurrence.
C5_DedupCounts ==
    /\ \A out \in EnabledOutputs : OneVehiclePerKey(out)
    /\ c_pc = "returned" =>
          /\ c_summary[1].predictions = TotalObservations(SuccessStops)
          /\ c_summary[1].unique_vehicles = Cardinality(AllKeys)
          /\ \A out \in EnabledOutputs :
                /\ Len(out["predictions"]) = TotalObservations(SuccessStops)
                /\ {v.vehicle_key : v \in Range(out["vehicles"])} = AllKeys

\* Two stops report the same garage-id vehicle and the summary reads
\* predictions = 2, unique_vehicles = 1, with both sinks enabled.
C5_Witness ==
    /\ c_pc = "returned"
    /\ c_jsonl /\ c_clickhouse
    /\ \E s, t \in SuccessStops :
          /\ s # t
          /\ ObservationsOf(s) = <<VehP1>>
          /\ ObservationsOf(t) = <<VehP1>>
    /\ c_summary[1].predictions = 2
    /\ c_summary[1].unique_vehicles = 1
    /\ Len(c_ch_out["vehicles"]) = 1

\* The prediction records a sink holds for stop s, in order.
RECURSIVE PredictionsFor(_, _)
PredictionsFor(s, preds) ==
    IF preds = <<>> THEN <<>>
    ELSE IF Head(preds).stop_code = s
    THEN <<Head(preds)>> \o PredictionsFor(s, Tail(preds))
    ELSE PredictionsFor(s, Tail(preds))

\* C6: in the summary's cycle, a stop whose fetch failed has exactly one
\* ErrorRecord in every enabled sink, carrying the FetchResult's error,
\* attempts and status; it has no prediction or vehicle rows; it adds one to
\* summary.errors; and every successful stop has exactly the prediction rows
\* of its own payload, the vehicle rows covering exactly the keys of the
\* successful payloads.
C6_FailedStopRecorded ==
    c_pc = "returned" =>
       /\ c_summary[1].errors = Cardinality(FailedStops) + Cardinality(RaisedStops)
       /\ \A out \in EnabledOutputs :
             /\ \A s \in FailedStops :
                   /\ Cardinality({i \in 1..Len(out["errors"]) :
                                      out["errors"][i].stop_code = s}) = 1
                   /\ \E e \in Range(out["errors"]) :
                         /\ e.stop_code = s
                         /\ e.error = c_outcome[s].error
                         /\ e.attempts = c_outcome[s].attempts
                         /\ e.http_status = c_outcome[s].status
                   /\ PredictionsFor(s, out["predictions"]) = <<>>
                   /\ \A v \in Range(out["vehicles"]) : v.source_stop_code # s
             /\ \A t \in SuccessStops :
                   PredictionsFor(t, out["predictions"])
                       = [i \in 1..Len(ObservationsOf(t)) |->
                             BuildPredictionRecord(t, ObservationsOf(t)[i])]
             /\ {v.vehicle_key : v \in Range(out["vehicles"])} = AllKeys

\* A failed stop is drained first, a successful stop with vehicles after it,
\* and the cycle returns errors = 1.
C6_Witness ==
    /\ c_pc = "returned"
    /\ c_clickhouse
    /\ Len(c_order) >= 2
    /\ c_order[1] \in FailedStops
    /\ c_outcome[c_order[1]].attempts = 3
    /\ c_order[2] \in SuccessStops
    /\ Len(ObservationsOf(c_order[2])) >= 2
    /\ c_summary[1].errors = 1
    /\ Len(c_ch_out["errors"]) = 1

(***************************************************************************)
(* Properties of the batch writer                                          *)
(***************************************************************************)

\* C2: flush() never lets a sink failure out and leaves the buffer empty.
C2_FlushNeverPropagates ==
    w_last.op = "flush" => (w_last.raised = None /\ w_buffer = <<>>)

(***************************************************************************)
(* Properties of fetch_stop                                                *)
(***************************************************************************)

ErrorPrefixes == {"http_error", "url_error", "error"}

\* C3: fetch_stop never raises; when its last attempt failed it returns a
\* FetchResult whose error starts with http_error:, url_error: or error:.
C3_FetchNeverRaises ==
    /\ f_pc # "raised"
    /\ (f_pc = "returned" /\ RaisedBy(f_log[Len(f_log)]) # None)
          => /\ f_result[1].error # None
             /\ f_result[1].error[1][1] \in ErrorPrefixes

\* C4: a returned FetchResult has exactly one of payload and error set.
C4_ExactlyOneOfPayloadError ==
    f_pc = "returned" => ((f_result[1].payload # None) # (f_result[1].error # None))

(***************************************************************************)
(* Properties of the rate limiter                                          *)
(***************************************************************************)

\* C7: every acquire(n) with n >= 1 eventually returns True with exactly n
\* tokens debited.
C7_AcquireEventuallyReturns ==
    \A w \in Workers, n \in 1..MaxAcquire :
        (rl_pc[w] = "acq_lock" /\ rl_want[w] = n)
            ~> (/\ rl_event.worker = w
                /\ rl_event.kind = "acquire_true"
                /\ rl_event.n = n
                /\ rl_event.debited = n * TokenScale)

\* As long as no caller asks for more than bucket_capacity, every acquire(n)
\* does return True with n debited.
AcquireWithinCapacityReturns ==
    ([] (\A v \in Workers : rl_want[v] <= rl_capacity))
        => \A w \in Workers, n \in 1..MaxAcquire :
              (rl_pc[w] = "acq_lock" /\ rl_want[w] = n)
                  ~> (/\ rl_event.worker = w
                      /\ rl_event.kind = "acquire_true"
                      /\ rl_event.n = n
                      /\ rl_event.debited = n * TokenScale)

C9_GetNeverWaitsForSleeper ==
    \A w, v \in Workers :
        ~ (rl_pc[w] = "get_lock" /\ rl_pc[v] = "acq_sleep" /\ rl_lock = Some(v))

(***************************************************************************)
(* Properties of the vehicle tracker                                       *)
(***************************************************************************)

C11_WindowKeySurvives ==
    \A k \in VehicleKeys :
        (vt_since[k] >= 0 /\ vt_since[k] < vt_ttl) => GetVehicleState(k) # None

\* A cleanup dropped a bucket holding a key that was updated again inside the
\* window: the key is still tracked, while the other key of the dropped
\* buckets was evicted.
C11_Witness ==
    /\ vt_ret.op = "cleanup"
    /\ vt_ret.value = Some(1)
    /\ \E k \in vt_ret.dropped :
          /\ vt_since[k] >= 0 /\ vt_since[k] < vt_ttl
          /\ GetVehicleState(k) # None
          /\ GetVehicleState(k)[1].cycles_seen = 2
    /\ \E other \in vt_ret.dropped : GetVehicleState(other) = None

\* C12: with one cleanup per cycle, the update of a key that was also updated
\* in the cycle before (or earlier in the same cycle) returns the state that
\* update stored: the key was not evicted in between.
C12_SeenEveryCycleNeverEvicted ==
    (vt_ret.op = "update" /\ vt_ret.gap \in {0, 1})
        => (vt_ret.value # None /\ vt_ret.value = vt_ret.before)

FetchAccounting ==
    f_pc = "returned" =>
       LET n == Len(f_log)
           r == f_result[1]
       IN /\ r.attempts = n
          /\ n <= f_retries + 1
          /\ \A i \in 1..(n - 1) : RaisedBy(f_log[i]) # None
          /\ (r.error = None) <=> (RaisedBy(f_log[n]) = None)
          /\ RaisedBy(f_log[n]) # None =>
                /\ n = f_retries + 1
                /\ r.payload = None
                /\ r.error = Classify(f_log[n], RaisedBy(f_log[n])[1])

\* C14: fetch_stop stops at the first successful attempt and otherwise after
\* retries + 1 failed attempts - it always ends by returning - and the
\* returned FetchResult accounts for the attempts made.
C14_AttemptsAccounting ==
    /\ f_pc # "raised"
    /\ f_pc \in {"attempt", "sleeping"} => Len(f_log) <= f_retries
    /\ FetchAccounting

\* The records of all sink calls so far, in order.
RECURSIVE SentRecords(_)
SentRecords(calls) ==
    IF calls = <<>> THEN <<>> ELSE Head(calls).records \o SentRecords(Tail(calls))

\* C15: the buffer always holds fewer than batch_size records; a write()
\* calls the sink exactly when its record brings the buffer to batch_size,
\* passing exactly those batch_size records in one call; every record
\* written is buffered or was passed to the sink exactly once, in order.
C15_AutoFlushAtBatchSize ==
    /\ w_batch_size >= 1
    /\ Len(w_buffer) < w_batch_size
    /\ SentRecords(w_calls) \o w_buffer = [i \in 1..w_written |-> i]
    /\ w_last.op = "write" =>
          LET called == /\ w_calls # <<>>
                        /\ w_calls[Len(w_calls)].records[Len(w_calls[Len(w_calls)].records)]
                              = w_written
          IN IF called
             THEN /\ w_buffer = <<>>
                  /\ w_calls[Len(w_calls)].records
                        = [i \in 1..w_batch_size |-> w_written - w_batch_size + i]
             ELSE /\ w_buffer # <<>>
                  /\ w_buffer[Len(w_buffer)] = w_written

\* With batch size 2, a write filled the buffer a second time and passed
\* records 3 and 4 to the sink in one call.
C15_Witness ==
    /\ w_last.op = "write"
    /\ w_batch_size = 2
    /\ w_written = 4
    /\ Len(w_calls) = 2
    /\ w_calls[2].records = <<3, 4>>
    /\ w_buffer = <<>>

\* C16: when collect_once ends, by return or by exception, close() has been
\* called on every record writer opened for the cycle.
C16_WritersClosedOnExit ==
    c_pc \in {"returned", "raised"} => OpenedWriters \subseteq c_closed

\* The error rows a sink holds for stop s, in order.
RECURSIVE ErrorsFor(_, _)
ErrorsFor(s, errs) ==
    IF errs = <<>> THEN <<>>
    ELSE IF Head(errs).stop_code = s
    THEN <<Head(errs)>> \o ErrorsFor(s, Tail(errs))
    ELSE ErrorsFor(s, Tail(errs))

\* C18: an exception that escaped a fetch worker is absorbed where its
\* future is drained: every enabled sink gets one error row for the stop,
\* tagged unexpected, with attempts 0 and no HTTP status, and no other row;
\* errors counts it and responses does not; it never becomes the exception
\* that ends the cycle, and a cycle that returns has drained every stop.
C18_WorkerExceptionAbsorbed ==
    /\ \A s \in RaisedStops \cap Drained :
          \A out \in EnabledOutputs :
             /\ ErrorsFor(s, out["errors"])
                   = <<[stop_code |-> s, error |-> Some(<<"unexpected", 0>>),
                        http_status |-> None, attempts |-> 0]>>
             /\ PredictionsFor(s, out["predictions"]) = <<>>
             /\ \A v \in Range(out["vehicles"]) : v.source_stop_code # s
    /\ c_counts.errors = Cardinality(Drained \cap (RaisedStops \cup FailedStops))
    /\ c_counts.responses = Cardinality(Drained \ RaisedStops)
    /\ c_exc # None =>
          \/ c_exc = Some("CloseError")
          \/ \E s \in Drained : Untransformable(s)
    /\ c_pc = "returned" =>
          /\ Drained = Stops
          /\ c_summary[1].errors = Cardinality(RaisedStops \cup FailedStops)
          /\ c_summary[1].responses = Cardinality(Stops \ RaisedStops)

\* The future of a stop whose worker raised is drained first, a successful
\* stop with vehicles after it, and the cycle returns errors = 1,
\* responses = 1 with the unexpected row in both sinks.
C18_Witness ==
    /\ c_pc = "returned"
    /\ c_jsonl /\ c_clickhouse
    /\ Len(c_order) >= 2
    /\ c_order[1] \in RaisedStops
    /\ c_order[2] \in SuccessStops
    /\ Len(ObservationsOf(c_order[2])) >= 2
    /\ c_summary[1].errors = 1
    /\ c_summary[1].responses = 1
    /\ Len(c_jsonl_out["errors"]) = 1
    /\ Len(c_ch_out["errors"]) = 1
    /\ Len(c_ch_out["predictions"]) >= 2

\* C20: summary.responses is the number of stops whose fetch returned a
\* FetchResult without error.
C20_ResponsesAreSuccesses ==
    c_pc = "returned" => c_summary[1].responses = Cardinality(SuccessStops)

\* C17: cycles of collect_forever do not overlap: when a cycle is started the
\* one before it has finished all its fetch tasks, closed every record writer
\* it opened and returned its CycleSummary; a cycle writes at most one
\* CycleSummary row to a sink, only to an enabled sink and only once its
\* record writers are closed, and a cycle that has returned has written
\* exactly one to every enabled sink.
C17_CyclesDoNotOverlap ==
    /\ cf_prev # None =>
           /\ cf_prev[1].tasks_done
           /\ cf_prev[1].closed
           /\ cf_prev[1].summary
           /\ cf_prev[1].rows.jsonl = (IF c_jsonl THEN 1 ELSE 0)
           /\ cf_prev[1].rows.clickhouse = (IF c_clickhouse THEN 1 ELSE 0)
    /\ cf_pc # "off" =>
           /\ Len(c_jsonl_out["cycles"]) <= (IF c_jsonl THEN 1 ELSE 0)
           /\ Len(c_ch_out["cycles"]) <= (IF c_clickhouse THEN 1 ELSE 0)
           /\ (Len(c_jsonl_out["cycles"]) + Len(c_ch_out["cycles"]) > 0 =>
                   OpenedWriters \subseteq c_closed)
           /\ (c_pc = "returned" =>
                   /\ Len(c_jsonl_out["cycles"]) = (IF c_jsonl THEN 1 ELSE 0)
                   /\ Len(c_ch_out["cycles"]) = (IF c_clickhouse THEN 1 ELSE 0))

\* A second cycle is fetching, with both sinks enabled, after the first one
\* wrote its summary rows.
C17_Witness ==
    /\ cf_cycle = 2
    /\ cf_prev # None
    /\ c_jsonl /\ c_clickhouse
    /\ cf_prev[1].rows = [jsonl |-> 1, clickhouse |-> 1]
    /\ \E s \in Stops : c_task[s] = "running"

\* C19: with interval_s <= 0 collect_forever returns after exactly one cycle;
\* with interval_s > 0 it does not return, and after each cycle it sleeps
\* max(0, interval_s - elapsed), making no sleep call when the cycle took at
\* least interval_s.
C19_IntervalAndSleep ==
    /\ cf_pc = "returned" => (cf_interval <= 0 /\ cf_cycle = 1)
    /\ cf_interval <= 0 => (cf_cycle <= 1 /\ cf_pc \notin {"sleeping"})
    /\ (cf_interval <= 0 /\ cf_last # None) =>
           (cf_pc = "returned" /\ cf_last[1].slept = None)
    /\ (cf_interval > 0 /\ cf_last # None) =>
           /\ cf_last[1].slept =
                  (IF cf_last[1].elapsed >= cf_interval
                   THEN None
                   ELSE Some(cf_interval - cf_last[1].elapsed))
           /\ cf_pc = (IF cf_last[1].slept = None THEN "start" ELSE "sleeping")
                 \/ (cf_pc = "start" /\ cf_last[1].slept # None)
    /\ cf_pc = "sleeping" => (cf_last # None /\ cf_last[1].slept # None)

\* After its second cycle, which took one tick of an interval of two,
\* collect_forever sleeps one tick.
C19_Witness ==
    /\ cf_cycle = 2
    /\ cf_pc = "sleeping"
    /\ cf_interval = 2
    /\ cf_last = Some([elapsed |-> 1, etl |-> "raised_and_logged", slept |-> Some(1)])

\* With a non-positive interval, collect_forever has returned after one cycle.
C19_WitnessOnce ==
    /\ cf_pc = "returned"
    /\ cf_interval = -1
    /\ cf_cycle = 1

\* Both calls of build_vehicle_key have returned.
KeysBuilt == bk_keys # None

\* The four hashed fields of two argument records match after rounding.
SameHashedFields(a, b) ==
    /\ a.line_number = b.line_number
    /\ a.direction = b.direction
    /\ RoundCoordinate(a.lat) = RoundCoordinate(b.lat)
    /\ RoundCoordinate(a.lon) = RoundCoordinate(b.lon)

\* Both rounded coordinates of an argument record are present.
HasPosition(a) == RoundCoordinate(a.lat) # None /\ RoundCoordinate(a.lon) # None

\* C21: whenever the garage id is a string (not null), build_vehicle_key
\* returns the key garage:<id>, whatever the other arguments are.
C21_GarageKeyForEveryId ==
    KeysBuilt =>
        \A i \in 1..2 :
            bk_args[i].vehicle_id # None =>
                bk_keys[1][i] = [prefix |-> "garage", id |-> bk_args[i].vehicle_id[1],
                                 digest |-> None]

\* C21 amended: whenever the garage id is a non-empty string, build_vehicle_key
\* returns the key garage:<id>, whatever the other arguments are; a null or
\* empty garage id gives a hash key.
C21_GarageKeyForNonEmptyId ==
    KeysBuilt =>
        \A i \in 1..2 :
            IF bk_args[i].vehicle_id # None /\ bk_args[i].vehicle_id # Some("")
            THEN bk_keys[1][i] = [prefix |-> "garage", id |-> bk_args[i].vehicle_id[1],
                                  digest |-> None]
            ELSE bk_keys[1][i].prefix = "hash"

\* Two calls with the same garage id and no other argument in common return
\* the same garage key.
C21_Witness ==
    /\ KeysBuilt
    /\ bk_args[1].vehicle_id = Some("P1") /\ bk_args[2].vehicle_id = Some("P1")
    /\ bk_args[1].line_number # bk_args[2].line_number
    /\ bk_args[1].direction # bk_args[2].direction
    /\ bk_args[1].lat # bk_args[2].lat
    /\ bk_args[1].lon # bk_args[2].lon
    /\ bk_args[1].stop_code # bk_args[2].stop_code
    /\ bk_keys[1][1] = bk_keys[1][2]
    /\ bk_keys[1][1].prefix = "garage"

\* C22 as stated: with the garage id absent in both calls, the keys are equal
\* exactly when line number, direction and rounded coordinates match, whatever
\* the stop codes are.
C22_HashKeyIgnoresStop ==
    (KeysBuilt /\ bk_args[1].vehicle_id = None /\ bk_args[2].vehicle_id = None) =>
        (bk_keys[1][1] = bk_keys[1][2] <=> SameHashedFields(bk_args[1], bk_args[2]))

\* C22 amended: with no usable garage id (null or empty) in both calls, both
\* keys are hash keys, and they are equal exactly when line number, direction
\* and rounded coordinates match and, if a rounded coordinate is absent, the
\* stop codes match too.
C22_HashKeyFields ==
    (KeysBuilt /\ ~Truthy(bk_args[1].vehicle_id) /\ ~Truthy(bk_args[2].vehicle_id)) =>
        /\ bk_keys[1][1].prefix = "hash" /\ bk_keys[1][2].prefix = "hash"
        /\ bk_keys[1][1] = bk_keys[1][2] <=>
               /\ SameHashedFields(bk_args[1], bk_args[2])
               /\ (HasPosition(bk_args[1]) \/ bk_args[1].stop_code = bk_args[2].stop_code)

\* Two stops report a vehicle without garage id at unrounded positions that
\* differ but round to the same place, and get the same hash key.
C22_Witness ==
    /\ KeysBuilt
    /\ bk_args[1].vehicle_id = None /\ bk_args[2].vehicle_id = None
    /\ bk_args[1].lat # bk_args[2].lat
    /\ HasPosition(bk_args[1])
    /\ bk_args[1].stop_code # bk_args[2].stop_code
    /\ bk_keys[1][1] = bk_keys[1][2]
    /\ bk_keys[1][1].prefix = "hash"

\* C23: a run whose arguments hold a non-positive rate limit or a tracking
\* TTL below 1 is rejected before any cycle: parse_args hands no
\* CollectorConfig to the collection loop for such arguments.
C23_InvalidConfigRejected ==
    cli_config # None =>
        /\ cli_args.rate_limit > 0
        /\ cli_args.tracking_ttl_cycles >= 1

\* C24: with rate limiting enabled, a fetch task that has issued a request
\* (its worker is inside fetch_stop or past it) has first returned from the
\* admission gate's acquire().
C24_AcquireBeforeFetch ==
    DEFAULT_RATE_LIMIT_ENABLED =>
        \A s \in Stops : c_task[s] \in {"running", "done"} => s \in c_admitted

C26_SleeperReleasesLock ==
    \A w, v \in Workers :
        (/\ rl_pc[v] = "acq_sleep"
         /\ rl_pc[w] = "acq_lock"
         /\ rl_want[w] * TokenScale <= rl_tokens)
            => rl_lock # Some(v)

\* C27: once collect_once has left the thread pool (it is closing writers,
\* building the summary, or has returned or raised), every submitted fetch
\* task has finished; in particular a CycleSummary exists only when all tasks
\* are done, and this also holds when the aggregation loop was left early by
\* an exception.
C27_SummaryAfterAllTasks ==
    (c_pc \in {"closing", "summarizing", "returned", "raised"} \/ c_summary # None)
        => \A s \in Stops : c_task[s] = "done"

\* The summary has been returned for a cycle in which one task ended with an
\* exception and another with an error result.
C27_Witness ==
    /\ c_pc = "returned"
    /\ c_summary # None
    /\ RaisedStops # {}
    /\ FailedStops # {}
    /\ \A s \in Stops : c_task[s] = "done"

\* The aggregation loop was left by an exception before every outcome was
\* drained, and collect_once has raised with every task finished.
C27_WitnessEarlyExit ==
    /\ c_pc = "raised"
    /\ Len(c_order) < NumStops
    /\ \A s \in Stops : c_task[s] = "done"

\* C28: an update of a tracked key keeps first_seen_cycle_id (an update that
\* creates the state sets it to its cycle id), sets every other stored field
\* to its own arguments, and leaves the states of all other keys unchanged.
C28_UpdateFrame ==
    [][vt_ret'.op = "update" =>
          LET k == vt_ret'.key
              a == vt_ret'.args[1]
              new == vt_states'[k][1]
          IN /\ vt_states'[k] # None
             /\ new.first_seen_cycle_id =
                    (IF vt_states[k] # None THEN vt_states[k][1].first_seen_cycle_id
                     ELSE a.cycle_id)
             /\ new.vehicle_key = k
             /\ new.last_cycle_id = a.cycle_id
             /\ new.last_observed_at = a.obs.observed_at
             /\ new.last_lat = a.obs.lat
             /\ new.last_lon = a.obs.lon
             /\ new.last_stop_code = a.obs.stop_code
             /\ new.last_line_number = a.obs.line_number
             /\ \A other \in VehicleKeys \ {k} : vt_states'[other] = vt_states[other]]_vars

\* A tracked key has been updated with another cycle id and another
\* observation than the ones that created its state, while the other key is
\* tracked too: first_seen_cycle_id is still the creating cycle id.
C28_Witness ==
    /\ vt_ret.op = "update"
    /\ vt_ret.value # None
    /\ vt_ret.value[1].cycles_seen = 1
    /\ vt_ret.args[1].cycle_id # vt_ret.value[1].first_seen_cycle_id
    /\ vt_ret.args[1].obs.stop_code # vt_ret.value[1].last_stop_code
    /\ vt_states[vt_ret.key][1].first_seen_cycle_id = vt_ret.value[1].first_seen_cycle_id
    /\ vt_states[vt_ret.key][1].last_cycle_id = vt_ret.args[1].cycle_id
    /\ \A other \in VehicleKeys : vt_states[other] # None

\* C29: cycles_seen counts the distinct cycles in which the key was updated
\* since it was first seen: the first update stores 1, an update in a later
\* cycle adds one, and a further update in the same cycle (no cleanup since the
\* key's previous update) leaves the count as it is.
C29_CyclesSeenCountsCycles ==
    (vt_ret.op = "update") =>
        vt_states[vt_ret.key][1].cycles_seen =
            (IF vt_ret.value = None THEN 1
             ELSE IF vt_ret.gap = 0 THEN vt_ret.value[1].cycles_seen
             ELSE vt_ret.value[1].cycles_seen + 1)

\* The last detect_movement call, its stored state and its result.
DetectDone == vt_ret.op = "detect"

\* C30: detect_movement leaves the tracker as it is; for an untracked key it
\* returns {is_new: True} and nothing else; for a tracked key it returns
\* is_new False, stop_changed exactly when the stored stop code differs from
\* the given one, the stored stop code and coordinates, and a distance that is
\* absent exactly when one of the stored or given coordinates is missing.
C30_DetectMovement ==
    /\ [][vt_ret'.op = "detect" => UNCHANGED <<vt_ttl, vt_states, vt_counter, vt_buckets>>]_vars
    /\ [](DetectDone =>
            LET prev == vt_states[vt_ret.key]
                cur == vt_ret.args[1]
                res == vt_ret.value[1]
            IN IF prev = None
               THEN res = [is_new |-> TRUE]
               ELSE /\ res.is_new = FALSE
                    /\ res.stop_changed = (prev[1].last_stop_code # cur.stop_code)
                    /\ res.previous_stop_code = prev[1].last_stop_code
                    /\ res.previous_lat = prev[1].last_lat
                    /\ res.previous_lon = prev[1].last_lon
                    /\ (res.distance_km = None) <=>
                           (\/ prev[1].last_lat = None \/ prev[1].last_lon = None
                            \/ cur.lat = None \/ cur.lon = None))

\* detect_movement was called for a tracked key whose stored position lacks
\* the latitude, with a complete current position at another stop: the stop
\* changed and there is no distance.
C30_Witness ==
    /\ DetectDone
    /\ vt_states[vt_ret.key] # None
    /\ vt_states[vt_ret.key][1].last_lat = None
    /\ vt_ret.args[1].lat # None /\ vt_ret.args[1].lon # None
    /\ vt_ret.value[1].stop_changed
    /\ vt_ret.value[1].distance_km = None
    /\ \E other \in VehicleKeys : vt_states[other] = None

C39_StatusOfFinalAttempt ==
    (f_pc = "returned" /\ f_result[1].error # None) =>
        LET last == f_log[Len(f_log)]
            responded == \/ last.kind \in {"read_raises", "body"}
                         \/ last.kind = "urlopen_raises" /\ last.exc = "HTTPError"
        IN /\ f_result[1].status # None => responded
           /\ f_result[1].error[1][1] = "http_error"
                 => f_result[1].status = Some(f_result[1].error[1][2])

\* Distance between two coordinates, in units of 10^-6 degree.
AbsDiff(x, y) == IF x >= y THEN x - y ELSE y - x

\* The rounding quantum of 5 decimal places, 10^-5 degree, in units of
\* 10^-6 degree.
Quantum == 10

\* Both coordinates are present and differ by less than the quantum.
WithinQuantum(x, y) == x # None /\ y # None /\ AbsDiff(x[1], y[1]) < Quantum

\* Both coordinates lie nearer than half a quantum (at most half a quantum,
\* when closed) to one common multiple of the quantum.
SameCell(x, y, closed) ==
    /\ x # None /\ y # None
    /\ \E q \in (x[1] \div Quantum)..(x[1] \div Quantum + 1) :
          LET dx == AbsDiff(x[1], q * Quantum)
              dy == AbsDiff(y[1], q * Quantum)
          IN IF closed THEN 2 * dx <= Quantum /\ 2 * dy <= Quantum
                       ELSE 2 * dx < Quantum /\ 2 * dy < Quantum

\* The two calls are for observations without garage id on the same line
\* and direction.
SameLineNoGarage ==
    /\ KeysBuilt
    /\ bk_args[1].vehicle_id = None /\ bk_args[2].vehicle_id = None
    /\ bk_args[1].line_number = bk_args[2].line_number
    /\ bk_args[1].direction = bk_args[2].direction

\* C33 as stated: two observations without garage id, with the same line and
\* direction, whose latitudes differ by less than the rounding quantum and
\* whose longitudes do too, get the same vehicle key.
C33_WithinQuantumCollapses ==
    (/\ SameLineNoGarage
     /\ WithinQuantum(bk_args[1].lat, bk_args[2].lat)
     /\ WithinQuantum(bk_args[1].lon, bk_args[2].lon))
    => bk_keys[1][1] = bk_keys[1][2]

\* C33 amended: two observations without garage id, with the same line and
\* direction, get the same vehicle key when their latitudes lie nearer than
\* half a quantum to one common 5-decimal value and their longitudes do too;
\* coordinates that differ by less than the quantum and do not share such a
\* value (a rounding boundary lies between them) get different keys.
C33_SameCellCollapses ==
    SameLineNoGarage =>
        /\ (/\ SameCell(bk_args[1].lat, bk_args[2].lat, FALSE)
            /\ SameCell(bk_args[1].lon, bk_args[2].lon, FALSE))
           => bk_keys[1][1] = bk_keys[1][2]
        /\ (/\ WithinQuantum(bk_args[1].lat, bk_args[2].lat)
            /\ WithinQuantum(bk_args[1].lon, bk_args[2].lon)
            /\ bk_keys[1][1] = bk_keys[1][2])
           => /\ SameCell(bk_args[1].lat, bk_args[2].lat, TRUE)
              /\ SameCell(bk_args[1].lon, bk_args[2].lon, TRUE)

\* Latitudes 44.792146 and 44.792149 at one longitude, seen from two stops
\* on one line: both round to 44.79215 and the keys are equal.
C33_Witness ==
    /\ SameLineNoGarage
    /\ bk_args[1].lat = Some(44792146) /\ bk_args[2].lat = Some(44792149)
    /\ bk_args[1].lon = bk_args[2].lon /\ bk_args[1].lon # None
    /\ bk_args[1].stop_code # bk_args[2].stop_code
    /\ bk_keys[1][1] = bk_keys[1][2]
    /\ bk_keys[1][1].prefix = "hash"

\* The keys that have a VehicleState, and the keys the cycle buckets name.
TrackedKeys == {k \in VehicleKeys : vt_states[k] # None}
BucketKeys == UNION {vt_buckets[c] : c \in DOMAIN vt_buckets}

\* C34: after any sequence of update and cleanup calls the keys of states
\* are exactly the keys named by the retained cycle buckets: every tracked
\* key is in a bucket a later cleanup examines, and no bucket names an
\* evicted key.
C34_StatesMatchBuckets == TrackedKeys = BucketKeys

\* A cleanup has dropped a bucket naming both keys and evicted one of them;
\* the other key, updated since, is still tracked and still in a bucket.
C34_Witness ==
    /\ vt_ret.op = "cleanup"
    /\ vt_ret.dropped = VehicleKeys
    /\ vt_ret.value = Some(1)
    /\ Cardinality(TrackedKeys) = 1
    /\ BucketKeys = TrackedKeys

\* C35: an update of a key that cleanup has evicted (a state was stored for
\* it earlier and states holds none now) is a first sighting: it returns
\* None and stores a state with cycles_seen = 1, first_seen_cycle_id equal to
\* the cycle id of the call and every other field taken from the call.
C35_EvictedKeyStartsAfresh ==
    [][\A k \in VehicleKeys :
          (/\ vt_stored[k] # None
           /\ vt_states[k] = None
           /\ vt_ret'.op = "update"
           /\ vt_ret'.key = k)
          => LET a == vt_ret'.args[1] IN
             /\ vt_ret'.value = None
             /\ vt_states'[k] =
                   Some([vehicle_key         |-> k,
                         last_cycle_id       |-> a.cycle_id,
                         last_observed_at    |-> a.obs.observed_at,
                         last_lat            |-> a.obs.lat,
                         last_lon            |-> a.obs.lon,
                         last_stop_code      |-> a.obs.stop_code,
                         last_line_number    |-> a.obs.line_number,
                         first_seen_cycle_id |-> a.cycle_id,
                         cycles_seen         |-> 1])]_vars

\* A key seen in two cycles was evicted and is updated under a cycle id
\* other than the one it was first seen in: the update returned None and
\* the stored state counts one cycle, first seen in the new one.
C35_Witness ==
    /\ vt_ret.op = "update"
    /\ vt_ret.value = None
    /\ vt_ret.before # None
    /\ vt_ret.before[1].cycles_seen = 2
    /\ vt_ret.before[1].first_seen_cycle_id # vt_ret.args[1].cycle_id
    /\ vt_states[vt_ret.key][1].cycles_seen = 1
    /\ vt_states[vt_ret.key][1].first_seen_cycle_id = vt_ret.args[1].cycle_id

\* The records of the sink calls that failed, in order.
RECURSIVE LostRecords(_)
LostRecords(calls) ==
    IF calls = <<>> THEN <<>>
    ELSE (IF InsertJsonEachRow(Head(calls).records, Head(calls).outcome) # None
          THEN Head(calls).records ELSE <<>>) \o LostRecords(Tail(calls))

\* The number of sink calls that failed.
FailedCalls ==
    Cardinality({i \in 1..Len(w_calls) :
                    InsertJsonEachRow(w_calls[i].records, w_calls[i].outcome) # None})

\* C36: for any sequence of write, flush and close calls and any pattern of
\* sink failures the records passed to the sink are the first written ones,
\* each once and in the order written; after a close() every written record
\* has been passed to the sink; every sink call carries between one and
\* batch_size records, so the records lost are those of the failed calls and
\* number at most batch_size per failed call.
C36_AtMostOnceInOrder ==
    LET sent == SentRecords(w_calls) IN
    /\ Len(sent) <= w_written
    /\ \A i \in 1..Len(sent) : sent[i] = i
    /\ \A i \in 1..Len(w_calls) :
          Len(w_calls[i].records) >= 1 /\ Len(w_calls[i].records) <= w_batch_size
    /\ w_last.op = "close" => Len(sent) = w_written
    /\ (w_last.op = "close" /\ FailedCalls = 0) => LostRecords(w_calls) = <<>>
    /\ Len(LostRecords(w_calls)) <= FailedCalls * w_batch_size

\* Four records were written with batch_size 2, the first batch failed in
\* the sink and the second was inserted; close() was called last.  Records
\* 1 and 2 are lost, records 3 and 4 were passed once.
C36_Witness ==
    /\ w_batch_size = 2
    /\ w_written = 4
    /\ w_last.op = "close"
    /\ Len(w_calls) = 2
    /\ w_calls[1].outcome = "HTTPError"
    /\ w_calls[2].outcome = "ok"
    /\ LostRecords(w_calls) = <<1, 2>>
    /\ SentRecords(w_calls) = <<1, 2, 3, 4>>

OutcomeDetermined ==
    /\ c_summary[1].responses = Cardinality(Stops \ RaisedStops)
    /\ c_summary[1].errors = Cardinality(FailedStops \cup RaisedStops)
    /\ c_summary[1].predictions = TotalObservations(SuccessStops)
    /\ c_summary[1].unique_vehicles = Cardinality(AllKeys)
    /\ \A out \in EnabledOutputs :
          /\ \A s \in Stops :
                /\ Len(PredictionsFor(s, out["predictions"]))
                      = (IF s \in SuccessStops THEN Len(ObservationsOf(s)) ELSE 0)
                /\ \A i \in 1..Len(PredictionsFor(s, out["predictions"])) :
                      LET p == PredictionsFor(s, out["predictions"])[i]
                          o == ObservationsOf(s)[i]
                      IN /\ p.vehicle_id = o.garageNo
                         /\ p.line_number = o.lineNumber
                         /\ p.vehicle_lat = o.lat
                         /\ p.vehicle_lon = o.lon
                         /\ p.vehicle_key = KeyOf(s, i)
                /\ Len(ErrorsFor(s, out["errors"])) = (IF s \in SuccessStops THEN 0 ELSE 1)
                /\ s \in FailedStops =>
                      /\ ErrorsFor(s, out["errors"])[1].error = c_outcome[s].error
                      /\ ErrorsFor(s, out["errors"])[1].http_status = c_outcome[s].status
                      /\ ErrorsFor(s, out["errors"])[1].attempts = c_outcome[s].attempts
                /\ s \in RaisedStops =>
                      ErrorsFor(s, out["errors"])[1].error = Some(<<"unexpected", 0>>)
          /\ Len(out["vehicles"]) = Cardinality(AllKeys)
          /\ {v.vehicle_key : v \in Range(out["vehicles"])} = AllKeys

\* The vehicle record with its source stop blanked.
WithoutSource(v) == [v EXCEPT !.source_stop_code = 0]

\* C37 as stated: what a returned cycle reports and routes depends on the
\* fetch outcomes only, and the one VehicleRecord of a key agrees, in every
\* field but the source stop, with the record any observation of that key
\* would give (whichever stop is drained first, only the source stop
\* changes).
C37_OnlySourceStopVaries ==
    c_pc = "returned" =>
        /\ OutcomeDetermined
        /\ \A out \in EnabledOutputs :
              \A v \in Range(out["vehicles"]) :
                 \A s \in SuccessStops :
                    \A i \in 1..Len(ObservationsOf(s)) :
                       KeyOf(s, i) = v.vehicle_key =>
                          LET o == ObservationsOf(s)[i] IN
                          WithoutSource(v) =
                              [vehicle_key |-> v.vehicle_key, vehicle_id |-> o.garageNo,
                               line_number |-> o.lineNumber, vehicle_lat |-> o.lat,
                               vehicle_lon |-> o.lon, source_stop_code |-> 0]

\* The first observation of key k in the order the stops were drained: the
\* stop and the index in its payload.
FirstSighting(k) ==
    LET n == CHOOSE n \in 1..Len(c_order) :
                /\ c_order[n] \in SuccessStops
                /\ \E i \in 1..Len(ObservationsOf(c_order[n])) : KeyOf(c_order[n], i) = k
                /\ \A m \in 1..(n - 1) :
                      ~ (/\ c_order[m] \in SuccessStops
                         /\ \E i \in 1..Len(ObservationsOf(c_order[m])) :
                               KeyOf(c_order[m], i) = k)
        s == c_order[n]
        i == CHOOSE i \in 1..Len(ObservationsOf(s)) :
                /\ KeyOf(s, i) = k
                /\ \A j \in 1..(i - 1) : KeyOf(s, j) # k
    IN [stop |-> s, obs |-> ObservationsOf(s)[i]]

\* C37 amended: what a returned cycle reports and routes depends on the
\* fetch outcomes only, except for the VehicleRecords: every key has exactly
\* one, built from the first observation of the key in completion order, so
\* its source stop and the observation fields copied from that observation
\* (position, line, garage id) are those of the stop drained first.
C37_VehicleRecordOfFirstSighting ==
    c_pc = "returned" =>
        /\ OutcomeDetermined
        /\ \A out \in EnabledOutputs :
              \A v \in Range(out["vehicles"]) :
                 LET f == FirstSighting(v.vehicle_key) IN
                 v = [vehicle_key |-> v.vehicle_key, vehicle_id |-> f.obs.garageNo,
                      line_number |-> f.obs.lineNumber, vehicle_lat |-> f.obs.lat,
                      vehicle_lon |-> f.obs.lon, source_stop_code |-> f.stop]

\* Two stops report vehicle P1 at different positions and the stop listed
\* second was drained first: the one VehicleRecord carries its position.
C37_Witness ==
    /\ c_pc = "returned"
    /\ c_jsonl /\ c_clickhouse
    /\ c_order = <<2, 1>>
    /\ ObservationsOf(1) = <<VehP1>>
    /\ ObservationsOf(2) = <<VehP1Far>>
    /\ Len(c_ch_out["vehicles"]) = 1
    /\ c_ch_out["vehicles"][1].source_stop_code = 2
    /\ c_ch_out["vehicles"][1].vehicle_lat = VehP1Far.lat
    /\ c_summary[1].predictions = 2
    /\ c_summary[1].unique_vehicles = 1

\* C32: any two cycles run by collect_forever have different cycle ids.
C32_CycleIdsUnique ==
    \A i, j \in 1..Len(cf_starts) :
        i # j => CycleIdOf(cf_starts[i]) # CycleIdOf(cf_starts[j])

\* C40: collector.collect_once and orchestrator.collect_once with
\* jsonl_enabled = true are equivalent on the same stops, fetch outcomes and
\* completion order: once both have consumed the same futures they have
\* routed the same sequence of records to each sink, hold the same counters
\* and the same seen keys and have met the same exception, and when both
\* return they have closed the same writers, written the same summary row
\* and returned equal summaries.
C40_LegacyEquivalent ==
    /\ lg_n <= Len(c_order)
    /\ lg_n = Len(c_order) =>
          /\ lg_counts = c_counts
          /\ lg_seen = c_seen
          /\ \A t \in RecordTables :
                lg_jsonl_out[t] = c_jsonl_out[t] /\ lg_ch_out[t] = c_ch_out[t]
          /\ (lg_pc = "aggregating" /\ c_pc \in {"aggregating", "shutdown"})
                => lg_exc = c_exc
    /\ (lg_pc = "returned" /\ c_pc = "returned") =>
          /\ lg_summary = c_summary
          /\ lg_closed = c_closed
          /\ lg_jsonl_out = c_jsonl_out
          /\ lg_ch_out = c_ch_out

\* Both implementations returned from a cycle with ClickHouse enabled in
\* which one stop failed and the other reported three vehicles, two of them
\* with the same hash key.
C40_Witness ==
    /\ lg_pc = "returned" /\ c_pc = "returned"
    /\ c_jsonl /\ c_clickhouse
    /\ lg_summary # None
    /\ lg_summary[1].errors = 1
    /\ lg_summary[1].predictions = 3
    /\ lg_summary[1].unique_vehicles = 2
    /\ Len(lg_ch_out["vehicles"]) = 2
    /\ Len(lg_jsonl_out["errors"]) = 1
    /\ Len(lg_jsonl_out["cycles"]) = 1
    /\ lg_closed = c_closed

====
